---- MODULE Spec2Model ----
(***************************************************************************)
(* LaunchRadar: the incremental refresh pipeline.                          *)
(*                                                                         *)
(*   ChangelogScraper.scrapeCompany / scrapeAllChangelogs                  *)
(*        (src/src/services/changelog-scraper.ts)                          *)
(*   DataStore                (src/src/services/data-store.ts)             *)
(*   GET /api/scrape           (src/unnamed/part_001)                      *)
(*   runDailyScraper           (src/daily-scraper.js)                      *)
(*                                                                         *)
(* The data directory is the variable files; one refresh of one source is  *)
(* the three steps SC_Load, SC_Probe, SC_Full; the route handler and the   *)
(* batch script are the callers that consume its result.  What a page      *)
(* shows (the entries the probe and the adapter read, and whether the      *)
(* browser, the navigation or the extraction fails) is the environment's   *)
(* choice at each step.                                                    *)
(***************************************************************************)
EXTENDS Integers, Sequences, FiniteSets, TLC

----------------------------------------------------------------------------
(* Bounds of the model *)

\* longest sequence of entries a full extraction returns
MaxCrawl == 2
\* longest sequence of elements the quick probe's selector matches
MaxProbe == 2
\* number of GET requests clients send to the route
MaxRequests == 2
\* number of runs of the batch script that reach logScrapingResults
MaxLogRuns == 32
\* number of those runs in which every source failed
MaxFailedRuns == 1
\* largest value of document.body.scrollHeight (in screens)
MaxHeight == 2
\* most words in a title handed to classifyUpdateType
MaxWords == 3
\* most elements the quick probe's selector matches on a page probed alone
MaxMatched == 4
\* minutes the client's clock runs
MaxClock == 6

----------------------------------------------------------------------------
(* Program constants *)

\* the scrapers registered by the constructor, in Map insertion order
\* (the first three of the ten)
Registry == <<"stripe", "vercel", "supabase">>

\* the batch script's list, restricted to the registered names above
SupportedCompanies == <<"vercel", "supabase">>

\* a name no scraper is registered under
Unregistered == "openai"

\* searchParams.get of a parameter the URL does not carry
Null == "<null>"

\* the two requests handled at the same time
Overlapping == {1, 2}

\* elements.slice(0, 3) in the quick probe
QuickLimit == 3

\* logs.slice(0, 30) in logScrapingResults
LogCap == 30

\* loadMoreContent: for (let i = 0; i < 5; i++)
ClickCap == 5
\* loadMoreContent: while (attempts < 25)
ScrollCap == 25
\* loadMoreContent: if (noChangeCount >= 3) break
NoChangeCap == 3
\* ChangelogClient.cacheTimeout = 5 * 60 * 1000 ms, in minutes
CacheTimeout == 5

RegisteredNames == {Registry[i] : i \in 1..Len(Registry)}

----------------------------------------------------------------------------
(* Titles, dates, updates *)

\* A title is a sequence of tokens; " " is a whitespace token.
WS == " "
T_Launch    == <<"Launch", WS, "v2">>
T_LaunchPad == <<"Launch", WS, "v2", WS>>
T_new       == <<"new", WS, "dashboard">>
T_New       == <<"New", WS, "dashboard">>
T_Old       == <<"Edge", WS, "config">>
T_Stripe    == <<"2024-01-01", WS, "Added", WS, "webhooks">>
T_Supa      == <<"Branching", WS, "update">>

\* Timestamps written by new Date().toISOString(): within one request every
\* reading is Now; once a later request starts, what was written is Earlier.
Now == "now"
Earlier == "earlier"

\* Date text is a sequence of characters.
D0 == <<"2", "0", "2", "3", "-", "1", "2", "-", "0", "1">>
D1 == <<"2", "0", "2", "4", "-", "0", "1", "-", "0", "1">>
D2 == <<"2", "0", "2", "4", "-", "0", "2", "-", "0", "1">>

\* new Date().toISOString().split('T')[0] while the model runs
Today == <<"2", "0", "2", "4", "-", "0", "3", "-", "0", "1">>

Upd(t, d) == [title |-> t, date |-> d]

RECURSIVE TrimStart(_)
TrimStart(t) ==
    IF t # <<>> /\ Head(t) = WS THEN TrimStart(Tail(t)) ELSE t

RECURSIVE TrimEnd(_)
TrimEnd(t) ==
    IF t # <<>> /\ t[Len(t)] = WS THEN TrimEnd(SubSeq(t, 1, Len(t) - 1)) ELSE t

\* String.prototype.trim
Trim(t) == TrimEnd(TrimStart(t))

----------------------------------------------------------------------------
(* Text helpers of BaseCompanyScraper: classifyUpdateType *)

\* Text is a sequence of characters here.
UpperCase == <<"A", "B", "C", "D", "E", "F", "G", "H", "I", "J", "K", "L", "M",
               "N", "O", "P", "Q", "R", "S", "T", "U", "V", "W", "X", "Y", "Z">>
LowerCase == <<"a", "b", "c", "d", "e", "f", "g", "h", "i", "j", "k", "l", "m",
               "n", "o", "p", "q", "r", "s", "t", "u", "v", "w", "x", "y", "z">>

\* String.prototype.toLowerCase
toLowerCase(str) ==
    [k \in 1..Len(str) |->
        IF \E n \in 1..Len(UpperCase) : UpperCase[n] = str[k]
        THEN LowerCase[CHOOSE n \in 1..Len(UpperCase) : UpperCase[n] = str[k]]
        ELSE str[k]]

\* String.prototype.includes
includes(str, sub) ==
    \E k \in 1..(Len(str) - Len(sub) + 1) : SubSeq(str, k, k + Len(sub) - 1) = sub

K_breaking == <<"b", "r", "e", "a", "k", "i", "n", "g">>
K_deprecated == <<"d", "e", "p", "r", "e", "c", "a", "t", "e", "d">>
K_security == <<"s", "e", "c", "u", "r", "i", "t", "y">>
K_vulnerability == <<"v", "u", "l", "n", "e", "r", "a", "b", "i", "l", "i", "t", "y">>
K_performance == <<"p", "e", "r", "f", "o", "r", "m", "a", "n", "c", "e">>
K_speed == <<"s", "p", "e", "e", "d">>
K_faster == <<"f", "a", "s", "t", "e", "r">>
K_bug == <<"b", "u", "g">>
K_fix == <<"f", "i", "x">>
K_issue == <<"i", "s", "s", "u", "e">>
K_pricing == <<"p", "r", "i", "c", "i", "n", "g">>
K_plan == <<"p", "l", "a", "n">>
K_cost == <<"c", "o", "s", "t">>
K_new == <<"n", "e", "w">>
K_add == <<"a", "d", "d">>
K_launch == <<"l", "a", "u", "n", "c", "h">>

\* the six keyword groups, in the order of the if statements
Keywords ==
    <<{K_breaking, K_deprecated},
      {K_security, K_vulnerability},
      {K_performance, K_speed, K_faster},
      {K_bug, K_fix, K_issue},
      {K_pricing, K_plan, K_cost},
      {K_new, K_add, K_launch}>>

\* ScrapedUpdate['type']
UpdateTypes ==
    {"breaking", "security", "performance", "bugfix", "pricing", "feature", "improvement"}

hasAny(content, group) == \E kw \in group : includes(content, kw)

\* the bug/fix/issue test put before the breaking and security tests
classifyBugfixFirst(title, description) ==
    LET content == toLowerCase(title \o <<" ">> \o description) IN
    IF hasAny(content, Keywords[4]) THEN "bugfix"
    ELSE IF hasAny(content, Keywords[1]) THEN "breaking"
    ELSE IF hasAny(content, Keywords[2]) THEN "security"
    ELSE IF hasAny(content, Keywords[3]) THEN "performance"
    ELSE IF hasAny(content, Keywords[5]) THEN "pricing"
    ELSE IF hasAny(content, Keywords[6]) THEN "feature"
    ELSE "improvement"

\* BaseCompanyScraper.classifyUpdateType
classifyUpdateType(title, description) ==
    LET content == toLowerCase(title \o <<" ">> \o description) IN
    IF hasAny(content, Keywords[1]) THEN "breaking"
    ELSE IF hasAny(content, Keywords[2]) THEN "security"
    ELSE IF hasAny(content, Keywords[3]) THEN "performance"
    ELSE IF hasAny(content, Keywords[4]) THEN "bugfix"
    ELSE IF hasAny(content, Keywords[5]) THEN "pricing"
    ELSE IF hasAny(content, Keywords[6]) THEN "feature"
    ELSE "improvement"

----------------------------------------------------------------------------
(* Text helpers of BaseCompanyScraper: parseDate *)

Digit == {"0", "1", "2", "3", "4", "5", "6", "7", "8", "9"}
Letter == {UpperCase[n] : n \in 1..Len(UpperCase)} \cup {LowerCase[n] : n \in 1..Len(LowerCase)}

allIn(str, from, to, class) == \A k \in from..to : str[k] \in class

\* /^\d{4}-\d{2}-\d{2}$/
isoFormat(str) ==
    /\ Len(str) = 10
    /\ allIn(str, 1, 4, Digit) /\ str[5] = "-"
    /\ allIn(str, 6, 7, Digit) /\ str[8] = "-"
    /\ allIn(str, 9, 10, Digit)

\* /^\d{1,2}\/\d{1,2}\/\d{4}$/
usFormat(str) ==
    \E a \in 1..2, b \in 1..2 :
        /\ Len(str) = a + b + 6
        /\ allIn(str, 1, a, Digit) /\ str[a + 1] = "/"
        /\ allIn(str, a + 2, a + b + 1, Digit) /\ str[a + b + 2] = "/"
        /\ allIn(str, a + b + 3, a + b + 6, Digit)

\* /^[A-Za-z]+ \d{1,2}, \d{4}$/
monthFormat(str) ==
    \E m \in 1..Len(str), d \in 1..2 :
        /\ Len(str) = m + d + 7
        /\ allIn(str, 1, m, Letter) /\ str[m + 1] = " "
        /\ allIn(str, m + 2, m + d + 1, Digit)
        /\ str[m + d + 2] = "," /\ str[m + d + 3] = " "
        /\ allIn(str, m + d + 4, m + d + 7, Digit)

\* /ago$/i
agoFormat(str) ==
    /\ Len(str) >= 3
    /\ toLowerCase(SubSeq(str, Len(str) - 2, Len(str))) = <<"a", "g", "o">>

\* some format of the list tests true
formatTest(str) == isoFormat(str) \/ usFormat(str) \/ monthFormat(str) \/ agoFormat(str)

\* an Invalid Date: getTime() is NaN
Invalid == "Invalid Date"

DigitValue(ch) == CHOOSE v \in 0..9 : <<"0", "1", "2", "3", "4", "5", "6", "7", "8", "9">>[v + 1] = ch

twoDigits(str, k) == 10 * DigitValue(str[k]) + DigitValue(str[k + 1])

\* new Date(str).toISOString().split('T')[0], or Invalid: a date-only ISO
\* string is read as that UTC day when its month and day exist (days 29 to
\* 31, which exist in some months only, are in none of the texts below); what
\* any other string yields is left to the engine's own parser (legacy)
newDate(str, legacy) ==
    IF isoFormat(str)
    THEN IF twoDigits(str, 6) \in 1..12 /\ twoDigits(str, 9) \in 1..28
         THEN str
         ELSE Invalid
    ELSE legacy

\* parseDate handing back the text it could not parse
parseDateKeepText(str, today, legacy) ==
    IF str = <<>> THEN today
    ELSE LET cleanDate == Trim(str)
             parsed == newDate(cleanDate, legacy)
         IN  IF formatTest(cleanDate) /\ parsed # Invalid THEN parsed ELSE cleanDate

\* BaseCompanyScraper.parseDate
parseDate(str, today, legacy) ==
    IF str = <<>> THEN today
    ELSE LET cleanDate == Trim(str)
             parsed == newDate(cleanDate, legacy)
         IN  IF formatTest(cleanDate) /\ parsed # Invalid THEN parsed ELSE today

\* date texts read from pages
R_Blank == <<" ">>
R_IsoPadded == <<" ", "2", "0", "2", "4", "-", "0", "1", "-", "0", "1", " ">>
R_BadMonth == <<"2", "0", "2", "4", "-", "1", "3", "-", "0", "1">>
R_Us == <<"1", "/", "2", "/", "2", "0", "2", "4">>
R_Jan1 == <<"J", "a", "n", " ", "1", ",", " ", "2", "0", "2", "4">>
R_DaysAgo == <<"2", " ", "d", "a", "y", "s", " ", "a", "g", "o">>
R_Yesterday == <<"y", "e", "s", "t", "e", "r", "d", "a", "y">>
R_Quarter == <<"Q", "1", " ", "2", "0", "2", "4">>
R_Chicago == <<"C", "h", "i", "c", "a", "g", "o">>

----------------------------------------------------------------------------
(* What the pages show *)

\* date: date || new Date().toISOString().split('T')[0] in the adapters: the
\* date text of the page as it is, today's date when there is none
adapterDate(text) == IF text = <<>> THEN Today ELSE text

\* what Node's Date makes of the non-ISO date texts of the pages (server clock
\* in UTC): "Jan 1, 2024" is that day
nodeDate(text) == IF Trim(text) = R_Jan1 THEN D1 ELSE Invalid

\* entries a source's adapter may extract from its page
PageEntries(c) ==
    CASE c = "vercel"   -> {Upd(T_Launch, D1), Upd(T_New, D2)}
      [] c = "stripe"   -> {Upd(T_Stripe, D1)}
      [] c = "supabase" -> {Upd(T_Supa, adapterDate(R_Jan1))}
      [] OTHER          -> {}

\* elements the quick probe's generic selectors may match on a source's page,
\* with the date text they show
ProbeEntries(c) ==
    CASE c = "vercel"   -> {Upd(T_Launch, D1), Upd(T_Launch, D2)}
      [] c = "stripe"   -> {Upd(T_Stripe, D1)}
      [] c = "supabase" -> {Upd(T_Supa, R_Jan1)}
      [] OTHER          -> {}

SeqsUpTo(S, n) == UNION {[1..k -> S] : k \in 0..n}

\* what scraper.scrape() may extract: any sequence of the page's entries for
\* vercel (the same entry twice included), the single entry for the others
FullResults(c) ==
    IF c = "vercel" THEN SeqsUpTo(PageEntries(c), MaxCrawl)
    ELSE {<<e>> : e \in PageEntries(c)}

\* what the quick probe's selector may match
ProbeResults(c) ==
    IF c = "vercel" THEN SeqsUpTo(ProbeEntries(c), MaxProbe)
    ELSE {<<e>> : e \in ProbeEntries(c)}

----------------------------------------------------------------------------
(* The data directory *)

NoFile == [exists |-> FALSE, readable |-> FALSE, updates |-> <<>>,
           success |-> FALSE, lastScraped |-> Earlier]

\* a file JSON.parse rejects
CorruptFile == [exists |-> TRUE, readable |-> FALSE, updates |-> <<>>,
                success |-> FALSE, lastScraped |-> Earlier]

StoredData(u, ok, t) == [exists |-> TRUE, readable |-> TRUE, updates |-> u,
                         success |-> ok, lastScraped |-> t]

\* files found in the data directory when the server starts: none, one that
\* does not parse, one whose titles were written untrimmed and in lower case,
\* one holding an entry the page no longer shows
SeedFiles(c) ==
    IF c = "vercel"
    THEN {NoFile, CorruptFile,
          StoredData(<<Upd(T_LaunchPad, D1), Upd(T_new, D2)>>, TRUE, Earlier),
          StoredData(<<Upd(T_Old, D0)>>, TRUE, Earlier)}
    ELSE {NoFile}

\* the record written without the success mark
storeSuccessFalse(fs, competitor, data, t) ==
    [fs EXCEPT ![competitor] = StoredData(data.updates, FALSE, t)]

\* DataStore.store: the record written carries the updates of data
store(fs, competitor, data, t) ==
    [fs EXCEPT ![competitor] = StoredData(data.updates, TRUE, t)]

\* DataStore.store with fs.writeFileSync throwing when ~writeOK: the catch
\* block logs the error and the file stays as it was
storeTry(fs, competitor, data, t, writeOK) ==
    IF writeOK THEN store(fs, competitor, data, t) ELSE fs

\* DataStore.storeFailure: { competitor, updates: [], lastScraped, success: false }
storeFailure(fs, competitor, t) ==
    [fs EXCEPT ![competitor] = StoredData(<<>>, FALSE, t)]

\* DataStore.retrieve: null (NoFile) when the file is absent or unparsable
retrieve(fs, competitor) ==
    IF competitor \in DOMAIN fs /\ fs[competitor].exists /\ fs[competitor].readable
    THEN fs[competitor]
    ELSE NoFile

\* Time passes before a request arrives: every stored timestamp is in the past.
aged(fs) == [c \in DOMAIN fs |-> [fs[c] EXCEPT !.lastScraped = Earlier]]

\* BaseCompanyScraper.loadExistingData: [] when the read or the parse fails
loadExistingData(fs, companyName) ==
    IF fs[companyName].exists /\ fs[companyName].readable
    THEN fs[companyName].updates
    ELSE <<>>

\* loadExistingData with fs.readFile rejecting when ~readOK (too many open
\* files, an I/O error): the catch block answers [] as for a missing file
loadExistingDataTry(fs, companyName, readOK) ==
    IF readOK THEN loadExistingData(fs, companyName) ELSE <<>>

\* the batch script's log: data/scraping-log.json
LogName == "scraping-log"

\* fs.readdirSync(dataDir).filter(file => file.endsWith('.json')), each name
\* with '.json' removed: the sources' files and, once a run has logged, the
\* run log (lg is its content, [] while there is no such file)
jsonFiles(fs, lg) ==
    LET names == <<LogName>> \o Registry
        present(n) == IF n = LogName THEN lg # <<>> ELSE fs[n].exists
    IN  SelectSeq(names, present)

\* what retrieve(name) hands to retrieveAll: the parsed object of a source's
\* file, the parsed array of the run log (an array carries none of the
\* fields of a record), nothing when the file cannot be read
retrieveNamed(fs, lg, n) ==
    IF n = LogName
    THEN <<[isArray |-> TRUE, competitor |-> Null, updates |-> <<>>,
            success |-> FALSE, lastScraped |-> Null]>>
    ELSE IF retrieve(fs, n).exists
    THEN <<[isArray |-> FALSE, competitor |-> n, updates |-> fs[n].updates,
            success |-> fs[n].success, lastScraped |-> fs[n].lastScraped]>>
    ELSE <<>>

RECURSIVE retrieveEach(_, _, _)
\* for (const file of jsonFiles) { data = retrieve(...); if (data) push(data) }
retrieveEach(fs, lg, names) ==
    IF names = <<>> THEN <<>>
    ELSE retrieveNamed(fs, lg, Head(names)) \o retrieveEach(fs, lg, Tail(names))

\* DataStore.retrieveAll
retrieveAll(fs, lg) == retrieveEach(fs, lg, jsonFiles(fs, lg))

----------------------------------------------------------------------------
(* The refresh controller's pure parts *)

\* shouldSkipScraping comparing the titles only
shouldSkipTitleOnly(existingUpdates, newUpdates) ==
    IF Len(existingUpdates) = 0 THEN FALSE
    ELSE IF Len(newUpdates) = 0 THEN TRUE
    ELSE Trim(existingUpdates[1].title) = Trim(newUpdates[1].title)

\* shouldSkipScraping comparing the titles as stored, without trim()
shouldSkipRawTitle(existingUpdates, newUpdates) ==
    IF Len(existingUpdates) = 0 THEN FALSE
    ELSE IF Len(newUpdates) = 0 THEN TRUE
    ELSE /\ existingUpdates[1].title = newUpdates[1].title
         /\ existingUpdates[1].date = newUpdates[1].date

\* BaseCompanyScraper.shouldSkipScraping
shouldSkipScraping(existingUpdates, newUpdates) ==
    IF Len(existingUpdates) = 0 THEN FALSE
    ELSE IF Len(newUpdates) = 0 THEN TRUE
    ELSE /\ Trim(existingUpdates[1].title) = Trim(newUpdates[1].title)
         /\ existingUpdates[1].date = newUpdates[1].date

ExistingTitles(existingUpdates) ==
    {Trim(existingUpdates[i].title) : i \in 1..Len(existingUpdates)}

\* the duplicate test comparing the titles as stored, without trim()
IsNewUpdateRaw(existingUpdates, update) ==
    update.title \notin {existingUpdates[i].title : i \in 1..Len(existingUpdates)}

\* filterNewUpdates: !existingTitles.has(update.title.trim())
IsNewUpdate(existingUpdates, update) ==
    Trim(update.title) \notin ExistingTitles(existingUpdates)

\* BaseCompanyScraper.filterNewUpdates
filterNewUpdates(existingUpdates, newUpdates) ==
    IF Len(existingUpdates) = 0 THEN newUpdates
    ELSE LET keep(u) == IsNewUpdate(existingUpdates, u)
         IN  SelectSeq(newUpdates, keep)

\* the merge with the new entries put after the stored ones
combinedUpdatesAppended(existingUpdates, fullUpdates) ==
    IF Len(existingUpdates) > 0
    THEN existingUpdates \o filterNewUpdates(existingUpdates, fullUpdates)
    ELSE fullUpdates

\* scrapeCompany, after scraper.scrape() returned fullUpdates
combinedUpdates(existingUpdates, fullUpdates) ==
    IF Len(existingUpdates) > 0
    THEN filterNewUpdates(existingUpdates, fullUpdates) \o existingUpdates
    ELSE fullUpdates

\* BaseCompanyScraper.quickScrapeCheck: the first three matched elements,
\* those with an empty title dropped, each with its date text run through
\* parseDate; [] when $$eval throws
quickScrapeCheck(matched, evalOK) ==
    IF ~evalOK THEN <<>>
    ELSE LET first == SubSeq(matched, 1, IF Len(matched) < QuickLimit
                                         THEN Len(matched) ELSE QuickLimit)
             titled(e) == Len(e.title) > 0
             entries == SelectSeq(first, titled)
         IN  [k \in 1..Len(entries) |->
                 Upd(entries[k].title,
                     parseDate(entries[k].date, Today, nodeDate(entries[k].date)))]

\* the whole of quickScrapeCheck: page.waitForNetworkIdle() stands before the
\* try block, so its rejection leaves the method as an exception
quickScrapeCheckCall(idleOK, evalOK, matched) ==
    IF ~idleOK THEN [threw |-> TRUE, updates |-> <<>>]
    ELSE [threw |-> FALSE, updates |-> quickScrapeCheck(matched, evalOK)]

ScrapedData(c, u, t) == [competitor |-> c, updates |-> u, lastScraped |-> t]

NoData == ScrapedData(Null, <<>>, Earlier)

\* scrapeCompany probing whether or not there is history
afterLoadAlwaysProbe(existing) == "probe"

\* scrapeCompany after loadExistingData: probe first only when there is history
afterLoad(existing) == IF Len(existing) > 0 THEN "probe" ELSE "full"

\* scrapeCompany swallowing the adapter's error and returning an empty record
scrapeOutcomeSwallow(companyName, existing, crawlOK, fullUpdates) ==
    IF crawlOK
    THEN [pc |-> "returned", err |-> "",
          ret |-> ScrapedData(companyName, combinedUpdates(existing, fullUpdates), Now)]
    ELSE [pc |-> "returned", err |-> "", ret |-> ScrapedData(companyName, <<>>, Now)]

\* scrapeCompany from scraper.scrape() on: the merged record, or the error of
\* the adapter rethrown through the finally block
scrapeOutcome(companyName, existing, crawlOK, fullUpdates) ==
    IF crawlOK
    THEN [pc |-> "returned", err |-> "",
          ret |-> ScrapedData(companyName, combinedUpdates(existing, fullUpdates), Now)]
    ELSE [pc |-> "threw", err |-> "Error scraping", ret |-> NoData]

\* the probe's first result equals the first stored entry in trimmed title and date
FirstMatches(existing, q) ==
    /\ Len(existing) > 0
    /\ Len(q) > 0
    /\ Trim(existing[1].title) = Trim(q[1].title)
    /\ existing[1].date = q[1].date

\* the loop giving up at the first scraper that throws
allDoneOnThrow(idx, pc) == idx = Len(Registry) \/ pc = "threw"

\* scrapeAllChangelogs: the for loop ends after the last registered scraper,
\* whatever the calls returned or threw
allDone(idx, pc) == idx = Len(Registry)

\* BaseCompanyScraper.close: if (this.browser) { close(); this.browser = null }
scraperClose(b) == IF b # Null THEN Null ELSE b

\* the browser closed only when the try block returned
afterTryOnReturn(pc, b) == IF pc = "returned" THEN scraperClose(b) ELSE b

\* scrapeCompany's finally block: scraper.close() however the try block ended
afterTry(pc, b) == scraperClose(b)

\* browser.close() closes the pages the browser still holds
pagesOf(b, n) == IF b = Null THEN 0 ELSE n

\* createPage: this.browser.newPage()
createPage(n) == n + 1

\* finally { await page.close() }
pageClose(n) == n - 1

----------------------------------------------------------------------------
(* ChangelogClient: the cache in the browser *)

\* the names in the order Array.prototype.sort() puts them
Alphabetical == <<"openai", "stripe", "supabase", "vercel">>

\* sources.sort().join(','), for a list that names no source twice
cacheKey(sources) ==
    LET named(n) == \E i \in 1..Len(sources) : sources[i] = n
    IN  SelectSeq(Alphabetical, named)

\* lists of sources the pages pass to the client
ClientSources == {<<"stripe", "vercel">>, <<"vercel", "stripe">>}

CacheKeys == {cacheKey(l) : l \in ClientSources}

\* this.cache.get(cacheKey) of a key never set
NoEntry == [present |-> FALSE, timestamp |-> 0, data |-> <<>>]

Entry(d, t) == [present |-> TRUE, timestamp |-> t, data |-> d]

\* cached && (Date.now() - cached.timestamp) < this.cacheTimeout
cacheValid(cached, now) == cached.present /\ (now - cached.timestamp) < CacheTimeout

\* fetchScrapedChangelogs: the cache afterwards, the value returned or the
\* rejection, and whether fetch() was called
fetchScrapedChangelogs(c, sources, now, fetchOK, updates) ==
    LET key == cacheKey(sources)
        cached == c[key]
    IN  IF cacheValid(cached, now)
        THEN [cache |-> c, out |-> cached.data, threw |-> FALSE, fetched |-> FALSE]
        ELSE IF fetchOK
        THEN [cache |-> [c EXCEPT ![key] = Entry(updates, now)],
              out |-> updates, threw |-> FALSE, fetched |-> TRUE]
        ELSE IF cached.present
        THEN [cache |-> c, out |-> cached.data, threw |-> FALSE, fetched |-> TRUE]
        ELSE [cache |-> c, out |-> <<>>, threw |-> TRUE, fetched |-> TRUE]

\* refreshChangelogs leaving the entry in the cache
refreshChangelogsNoDelete(c, sources, now, fetchOK, updates) ==
    fetchScrapedChangelogs(c, sources, now, fetchOK, updates)

\* refreshChangelogs: this.cache.delete(cacheKey), then fetchScrapedChangelogs
refreshChangelogs(c, sources, now, fetchOK, updates) ==
    fetchScrapedChangelogs([c EXCEPT ![cacheKey(sources)] = NoEntry],
                           sources, now, fetchOK, updates)

----------------------------------------------------------------------------
VARIABLES
    files,            \* data/<competitor>.json
    requests,         \* client requests so far
    req,              \* the query parameter of the request being served
    source,           \* searchParams.get('source')
    getPc,            \* position of the GET handler
    allIdx,           \* scrapeAllChangelogs: index of the scraper in turn
    results,          \* scrapeAllChangelogs: results
    cur,              \* scrapeCompany: companyName
    scPc,             \* scrapeCompany: position
    existingUpdates,  \* scrapeCompany: existingUpdates
    quickUpdates,     \* scrapeCompany: quickUpdates
    fullData,         \* scrapeCompany: fullData.updates
    ret,              \* scrapeCompany: value returned
    err,              \* scrapeCompany: error thrown
    resp,             \* the GET handler's JSON response
    snap,             \* history: files when the GET request started
    probed,           \* history: sources whose quick probe ran in this request
    crawled,          \* history: sources whose scrape() ran in this request
    failed,           \* history: sources whose refresh met an error
    skipped,          \* history: sources that took the skip path
    probeMatch,       \* history: sources whose probe's first result equalled
                      \*          the first stored entry in title and date
    batchPc,          \* runDailyScraper: position
    batchIdx,         \* runDailyScraper: index of the company in turn
    batchResults,     \* runDailyScraper: results
    exitCode,         \* runDailyScraper: process exit code, -1 while running
    batchCrawled,     \* history: sources whose scrape() ran during the batch run
    batchWritten,     \* history: sources whose file was written during the run
    logs,             \* data/scraping-log.json
    logHistory,       \* history: the entry of every run that logged, newest first
    paused,           \* history: a cooldown pause has elapsed since the last
                      \*          source's refresh began
    lmPc,             \* loadMoreContent: position
    lmI,              \* loadMoreContent: i of the click loop
    attempts,         \* loadMoreContent: attempts
    noChangeCount,    \* loadMoreContent: noChangeCount
    previousHeight,   \* loadMoreContent: previousHeight
    currentHeight,    \* loadMoreContent: currentHeight
    clickRounds,      \* history: rounds of the click loop that ran
    recentHeights,    \* history: the heights read last, at most NoChangeCap + 1
    lmErr,            \* history: loadMoreContent ended in its catch block
    browser,          \* each scraper's this.browser
    pages,            \* each scraper's pages opened and not closed
    pagesOpened,      \* history: pages opened by the refresh in hand
    clsTitle,         \* classifyUpdateType: title
    clsDescription,   \* classifyUpdateType: description
    clsType,          \* classifyUpdateType: value returned, Null before the call
    dateStr,          \* parseDate: dateStr
    dateLegacy,       \* parseDate: what new Date() makes of a non-ISO string
    dateOut,          \* parseDate: value returned, Null before the call
    writeFailed,      \* history: sources whose record could not be written
                      \*          during the request
    readPc,           \* retrieveAll: position
    allData,          \* retrieveAll: value returned
    postSources,      \* POST: sources of the request body
    postIdx,          \* POST: index of the source in turn
    qcPc,             \* quickScrapeCheck: position
    qcIdle,           \* quickScrapeCheck: page.waitForNetworkIdle() resolved
    qcEval,           \* quickScrapeCheck: page.$$eval resolved
    qcMatched,        \* quickScrapeCheck: elements the selector matched
    qcOut,            \* quickScrapeCheck: value returned
    qcThrew,          \* quickScrapeCheck: the call rejected
    cache,            \* ChangelogClient.cache
    clock,            \* Date.now() in the browser, in minutes
    clPc,             \* client call: position
    clOp,             \* client call: the method called
    clSources,        \* client call: sources
    clFetchOK,        \* client call: the fetch and the conversion succeed
    clUpdates,        \* client call: updates built from the response
    clBefore,         \* history: the cache entry of the key before the call
    clAt,             \* history: Date.now() of the call
    clFetched,        \* history: the call went to the network
    clOut,            \* client call: value returned
    clThrew,          \* client call: the call rejected
    sfPc,             \* storeFailure: position
    sfCompetitor,     \* storeFailure: competitor
    sfBefore,         \* history: the file of the competitor before the call
    sfAt,             \* history: requests when storeFailure was called
    ovPc,             \* two overlapping requests: position of each
    ovExisting,       \* existingUpdates of each
    ovRet,            \* record scrapeCompany returned to each
    ovStored,         \* history: requests in the order they stored
    ovFirst           \* history: updates persisted by the request that stored first

vars == <<files, requests, req, source, getPc, allIdx, results, cur, scPc,
          existingUpdates, quickUpdates, fullData, ret, err, resp,
          snap, probed, crawled, failed, skipped, probeMatch,
          batchPc, batchIdx, batchResults, exitCode, batchCrawled, batchWritten,
          logs, logHistory, paused,
          lmPc, lmI, attempts, noChangeCount, previousHeight, currentHeight,
          clickRounds, recentHeights, lmErr, browser, pages, pagesOpened,
          clsTitle, clsDescription, clsType, dateStr, dateLegacy, dateOut,
          writeFailed, readPc, allData, postSources, postIdx, qcPc, qcIdle, qcEval, qcMatched, qcOut, qcThrew, cache, clock, clPc, clOp, clSources, clFetchOK, clUpdates, clBefore, clAt, clFetched, clOut, clThrew, sfPc, sfCompetitor, sfBefore, sfAt, ovPc, ovExisting, ovRet, ovStored, ovFirst>>

scVars == <<cur, scPc, existingUpdates, quickUpdates, fullData, ret, err>>
histVars == <<snap, probed, crawled, failed, skipped, probeMatch>>
batchVars == <<batchPc, batchIdx, batchResults, exitCode, batchCrawled, batchWritten>>
logVars == <<logs, logHistory>>
loadVars == <<lmPc, lmI, attempts, noChangeCount, previousHeight, currentHeight,
              clickRounds, recentHeights, lmErr>>
ctxVars == <<browser, pages, pagesOpened>>
\* what the refresh pipeline and the batch script never touch
classifyVars == <<clsTitle, clsDescription, clsType>>
dateVars == <<dateStr, dateLegacy, dateOut>>
otherVars == <<loadVars, classifyVars, dateVars>>
readVars == <<readPc, allData>>
\* what none of the operations above touches
postVars == <<postSources, postIdx>>
probeVars == <<qcPc, qcIdle, qcEval, qcMatched, qcOut, qcThrew>>
clientVars == <<cache, clock, clPc, clOp, clSources, clFetchOK, clUpdates,
                clBefore, clAt, clFetched, clOut, clThrew>>
failVars == <<sfPc, sfCompetitor, sfBefore, sfAt>>
overlapVars == <<ovPc, ovExisting, ovRet, ovStored, ovFirst>>
extraVars == <<readVars, postVars, probeVars, clientVars, failVars, overlapVars>>
\* what the operations outside the refresh pipeline leave alone
pipelineVars == <<files, requests, req, source, getPc, allIdx, results, cur, scPc,
                  existingUpdates, quickUpdates, fullData, ret, err, resp,
                  snap, probed, crawled, failed, skipped, probeMatch,
                  batchPc, batchIdx, batchResults, exitCode, batchCrawled,
                  batchWritten, logs, logHistory, paused, browser, pages,
                  pagesOpened, writeFailed>>

NoResp == [success |-> FALSE, isArray |-> FALSE, data |-> <<>>,
           fromCache |-> FALSE, error |-> "", timestamp |-> Earlier, status |-> 0]

Init ==
    /\ files \in [RegisteredNames -> UNION {SeedFiles(c) : c \in RegisteredNames}]
    /\ \A c \in RegisteredNames : files[c] \in SeedFiles(c)
    /\ requests = 0
    /\ req = [param |-> "source", value |-> Null]
    /\ source = Null
    /\ getPc = "idle"
    /\ allIdx = 0
    /\ results = <<>>
    /\ cur = Null
    /\ scPc = "idle"
    /\ existingUpdates = <<>>
    /\ quickUpdates = <<>>
    /\ fullData = <<>>
    /\ ret = NoData
    /\ err = ""
    /\ resp = NoResp
    /\ snap = files
    /\ probed = {}
    /\ crawled = {}
    /\ failed = {}
    /\ skipped = {}
    /\ probeMatch = {}
    /\ batchPc = "idle"
    /\ batchIdx = 0
    /\ batchResults = <<>>
    /\ exitCode = -1
    /\ batchCrawled = {}
    /\ batchWritten = {}
    /\ logs = <<>>
    /\ logHistory = <<>>
    /\ paused = FALSE
    /\ lmPc = "idle"
    /\ lmI = 0
    /\ attempts = 0
    /\ noChangeCount = 0
    /\ previousHeight = 0
    /\ currentHeight = 0
    /\ clickRounds = 0
    /\ recentHeights = <<>>
    /\ lmErr = FALSE
    /\ browser = [c \in RegisteredNames |-> Null]
    /\ pages = [c \in RegisteredNames |-> 0]
    /\ pagesOpened = 0
    /\ clsTitle = <<>>
    /\ clsDescription = <<>>
    /\ clsType = Null
    /\ dateStr = <<>>
    /\ dateLegacy = Null
    /\ dateOut = Null
    /\ writeFailed = {}
    /\ readPc = "idle"
    /\ allData = <<>>
    /\ postSources = <<>>
    /\ postIdx = 0
    /\ qcPc = "idle"
    /\ qcIdle = TRUE
    /\ qcEval = TRUE
    /\ qcMatched = <<>>
    /\ qcOut = <<>>
    /\ qcThrew = FALSE
    /\ cache = [k \in CacheKeys |-> NoEntry]
    /\ clock = 0
    /\ clPc = "idle"
    /\ clOp = "fetch"
    /\ clSources = <<>>
    /\ clFetchOK = TRUE
    /\ clUpdates = <<>>
    /\ clBefore = NoEntry
    /\ clAt = 0
    /\ clFetched = FALSE
    /\ clOut = <<>>
    /\ clThrew = FALSE
    /\ sfPc = "idle"
    /\ sfCompetitor = Null
    /\ sfBefore = NoFile
    /\ sfAt = 0
    /\ ovPc = [p \in Overlapping |-> "start"]
    /\ ovExisting = [p \in Overlapping |-> <<>>]
    /\ ovRet = [p \in Overlapping |-> NoData]
    /\ ovStored = <<>>
    /\ ovFirst = <<>>

----------------------------------------------------------------------------
(* GET /api/scrape *)

\* const source = searchParams.get('source')
searchParamsGet(r, name) == IF r.param = name THEN r.value ELSE Null

\* the handler's first lines: parse the query, new ChangelogScraper(), pick
\* the branch
StartGet(r) ==
    LET s == searchParamsGet(r, "source") IN
    /\ req' = r
    /\ source' = s
    /\ resp' = NoResp
    /\ files' = aged(files)
    /\ snap' = aged(files)
    /\ probed' = {}
    /\ crawled' = {}
    /\ failed' = {}
    /\ skipped' = {}
    /\ probeMatch' = {}
    /\ existingUpdates' = <<>>
    /\ quickUpdates' = <<>>
    /\ fullData' = <<>>
    /\ ret' = NoData
    /\ err' = ""
    /\ results' = <<>>
    /\ scPc' = "start"
    /\ browser' = [c \in RegisteredNames |-> Null]
    /\ pages' = [c \in RegisteredNames |-> 0]
    /\ pagesOpened' = 0
    /\ writeFailed' = {}
    /\ IF s # Null /\ s # "all"
       THEN /\ getPc' = "single"
            /\ cur' = s
            /\ allIdx' = 0
       ELSE /\ getPc' = "all"
            /\ cur' = Registry[1]
            /\ allIdx' = 1

\* a client calls the route
ApiGet(r) ==
    /\ UNCHANGED extraVars
    /\ UNCHANGED otherVars
    /\ getPc \in {"idle", "done"}
    /\ requests < MaxRequests
    /\ batchPc = "idle"
    /\ requests' = requests + 1
    /\ StartGet(r)
    /\ UNCHANGED <<batchVars, logVars, paused>>

----------------------------------------------------------------------------
(* ChangelogScraper.scrapeCompany *)

Throw(e) ==
    /\ scPc' = "threw"
    /\ err' = e
    /\ failed' = failed \cup {cur}

\* scrapers.get, scraper.init() (puppeteer.launch), loadExistingData
SC_LoadR(readOK) ==
    /\ UNCHANGED writeFailed
    /\ UNCHANGED extraVars
    /\ UNCHANGED otherVars
    /\ scPc = "start"
    /\ IF cur \notin RegisteredNames
       THEN /\ Throw("No scraper found for company")
            /\ UNCHANGED existingUpdates
            /\ UNCHANGED browser
       ELSE /\ browser' = [browser EXCEPT ![cur] = "open"]
            /\ existingUpdates' = loadExistingDataTry(files, cur, readOK)
            /\ scPc' = afterLoad(existingUpdates')
            /\ UNCHANGED <<err, failed>>
    /\ pagesOpened' = 0
    /\ UNCHANGED pages
    /\ UNCHANGED <<files, requests, req, source, getPc, allIdx, results,
                   cur, quickUpdates, fullData, ret, resp, snap, probed, crawled,
                   skipped, probeMatch, batchVars, logVars>>
    /\ paused' = FALSE

\* the same with a data directory that answers every read
SC_Load == SC_LoadR(TRUE)

\* createPage, page.goto, quickScrapeCheck, shouldSkipScraping, page.close,
\* and scraper.close when the refresh ends here; navOK is false when
\* page.goto or the probe's page.waitForNetworkIdle rejects
SC_Probe(navOK, evalOK, matched) ==
    /\ UNCHANGED writeFailed
    /\ UNCHANGED extraVars
    /\ UNCHANGED otherVars
    /\ scPc = "probe"
    /\ IF ~navOK
       THEN /\ Throw("Navigation timeout")
            /\ UNCHANGED <<quickUpdates, ret, probed, skipped, probeMatch>>
            /\ browser' = [browser EXCEPT ![cur] = afterTry("threw", browser[cur])]
       ELSE LET q == quickScrapeCheck(matched, evalOK) IN
            /\ quickUpdates' = q
            /\ probed' = probed \cup {cur}
            /\ probeMatch' = IF FirstMatches(existingUpdates, q)
                             THEN probeMatch \cup {cur} ELSE probeMatch
            /\ IF shouldSkipScraping(existingUpdates, q)
               THEN /\ ret' = ScrapedData(cur, existingUpdates, Now)
                    /\ scPc' = "returned"
                    /\ skipped' = skipped \cup {cur}
                    /\ browser' = [browser EXCEPT
                                      ![cur] = afterTry("returned", browser[cur])]
               ELSE /\ scPc' = "full"
                    /\ UNCHANGED <<ret, skipped, browser>>
            /\ UNCHANGED <<err, failed>>
    /\ pagesOpened' = pagesOpened + 1
    /\ pages' = [pages EXCEPT ![cur] = pagesOf(browser'[cur], pageClose(createPage(pages[cur])))]
    /\ UNCHANGED <<files, requests, req, source, getPc, allIdx, results,
                   cur, existingUpdates, fullData, resp, snap, crawled, batchVars, logVars, paused>>

\* scraper.scrape() (createPage ... page.close), filterNewUpdates, the merge,
\* scraper.close
SC_Full(crawlOK, fullUpdates) ==
    /\ UNCHANGED writeFailed
    /\ UNCHANGED extraVars
    /\ UNCHANGED otherVars
    /\ scPc = "full"
    /\ crawled' = crawled \cup {cur}
    /\ failed' = IF crawlOK THEN failed ELSE failed \cup {cur}
    /\ fullData' = fullUpdates
    /\ LET o == scrapeOutcome(cur, existingUpdates, crawlOK, fullUpdates) IN
       /\ scPc' = o.pc
       /\ ret' = o.ret
       /\ err' = o.err
       /\ browser' = [browser EXCEPT ![cur] = afterTry(o.pc, browser[cur])]
    /\ pagesOpened' = pagesOpened + 1
    /\ pages' = [pages EXCEPT ![cur] = pagesOf(browser'[cur], pageClose(createPage(pages[cur])))]
    /\ UNCHANGED <<files, requests, req, source, getPc, allIdx, results,
                   cur, existingUpdates, quickUpdates, resp, snap, probed, skipped,
                   probeMatch, batchVars, logVars, paused>>

----------------------------------------------------------------------------
(* GET, single-source branch *)

SuccessResp(isArr, d, isCached, t) ==
    [success |-> TRUE, isArray |-> isArr, data |-> d, fromCache |-> isCached,
     error |-> "", timestamp |-> t, status |-> 200]

FailureResp(e, t) ==
    [success |-> FALSE, isArray |-> FALSE, data |-> <<>>, fromCache |-> FALSE,
     error |-> e, timestamp |-> t, status |-> 500]

\* result = await scraper.scrapeCompany(source); await dataStore.store(source, result)
GetSingleStoreW(writeOK) ==
    /\ UNCHANGED extraVars
    /\ UNCHANGED ctxVars
    /\ UNCHANGED otherVars
    /\ getPc = "single"
    /\ scPc = "returned"
    /\ files' = storeTry(files, source, ret, Now, writeOK)
    /\ writeFailed' = IF writeOK THEN writeFailed ELSE writeFailed \cup {source}
    /\ resp' = SuccessResp(FALSE, <<ret>>, FALSE, Now)
    /\ getPc' = "done"
    /\ scPc' = "idle"
    /\ existingUpdates' = <<>>
    /\ quickUpdates' = <<>>
    /\ fullData' = <<>>
    /\ ret' = NoData
    /\ err' = ""
    /\ UNCHANGED <<requests, req, source, allIdx, results, cur, histVars, batchVars, logVars, paused>>

\* the same with a data directory that takes every write
GetSingleStore == GetSingleStoreW(TRUE)

\* the catch block answering with the error without looking at the store
singleFallbackNoCache(fs, s, e, t) == FailureResp(e, t)

\* the catch block's response for a single source
singleFallback(fs, s, e, t) ==
    LET storedData == retrieve(fs, s) IN
    IF storedData.exists /\ storedData.success
    THEN SuccessResp(FALSE, <<storedData>>, TRUE, t)
    ELSE FailureResp(e, t)

\* catch (error): fall back to the stored record
GetSingleCatch ==
    /\ UNCHANGED writeFailed
    /\ UNCHANGED extraVars
    /\ UNCHANGED ctxVars
    /\ UNCHANGED otherVars
    /\ getPc = "single"
    /\ scPc = "threw"
    /\ resp' = singleFallback(files, source, err, Now)
    /\ getPc' = "done"
    /\ scPc' = "idle"
    /\ existingUpdates' = <<>>
    /\ quickUpdates' = <<>>
    /\ fullData' = <<>>
    /\ ret' = NoData
    /\ err' = ""
    /\ UNCHANGED <<files, requests, req, source, allIdx, results, cur, histVars, batchVars, logVars, paused>>

----------------------------------------------------------------------------
(* GET, all-sources branch: ChangelogScraper.scrapeAllChangelogs *)

\* results after the try/catch around one scrapeCompany call
pushResult(rs, pc, data) == IF pc = "returned" THEN Append(rs, data) ELSE rs

\* the loop moves on to the next registered scraper
AllNext ==
    /\ UNCHANGED writeFailed
    /\ UNCHANGED extraVars
    /\ UNCHANGED ctxVars
    /\ UNCHANGED otherVars
    /\ getPc = "all"
    /\ scPc \in {"returned", "threw"}
    /\ ~allDone(allIdx, scPc)
    /\ results' = pushResult(results, scPc, ret)
    /\ allIdx' = allIdx + 1
    /\ cur' = Registry[allIdx + 1]
    /\ scPc' = "start"
    /\ existingUpdates' = <<>>
    /\ quickUpdates' = <<>>
    /\ fullData' = <<>>
    /\ ret' = NoData
    /\ err' = ""
    /\ UNCHANGED <<files, requests, req, source, getPc, resp, histVars, batchVars, logVars, paused>>

RECURSIVE storeEach(_, _, _, _)
\* for (const data of result) await dataStore.store(data.competitor, data);
\* the writes of the sources in bad throw
storeEach(fs, rs, t, bad) ==
    IF rs = <<>> THEN fs
    ELSE storeEach(storeTry(fs, Head(rs).competitor, Head(rs), t,
                            Head(rs).competitor \notin bad),
                   Tail(rs), t, bad)

\* the loop ends; the handler stores each result and answers
AllFinishW(bad) ==
    /\ UNCHANGED extraVars
    /\ UNCHANGED ctxVars
    /\ UNCHANGED otherVars
    /\ getPc = "all"
    /\ scPc \in {"returned", "threw"}
    /\ allDone(allIdx, scPc)
    /\ LET rs == pushResult(results, scPc, ret) IN
       /\ bad \subseteq {rs[k].competitor : k \in 1..Len(rs)}
       /\ results' = rs
       /\ files' = storeEach(files, rs, Now, bad)
       /\ writeFailed' = bad
       /\ resp' = SuccessResp(TRUE, rs, FALSE, Now)
    /\ getPc' = "done"
    /\ scPc' = "idle"
    /\ existingUpdates' = <<>>
    /\ quickUpdates' = <<>>
    /\ fullData' = <<>>
    /\ ret' = NoData
    /\ err' = ""
    /\ UNCHANGED <<requests, req, source, allIdx, cur, histVars, batchVars, logVars, paused>>

\* the same with a data directory that takes every write
AllFinish == AllFinishW({})

----------------------------------------------------------------------------
(* POST /api/scrape *)

\* request bodies clients send: lists of sources
PostBodies ==
    {<<>>, <<"vercel">>, <<"stripe", "vercel">>, <<Unregistered, "supabase">>}

\* a client posts a body; hasSources is false when the body carries no
\* sources, and for (const source of undefined) throws into the outer catch
ApiPost(hasSources, srcs) ==
    /\ UNCHANGED readVars
    /\ UNCHANGED probeVars
    /\ UNCHANGED clientVars
    /\ UNCHANGED failVars
    /\ UNCHANGED overlapVars
    /\ UNCHANGED otherVars
    /\ getPc \in {"idle", "done"}
    /\ requests < MaxRequests
    /\ batchPc = "idle"
    /\ requests' = requests + 1
    /\ req' = [param |-> "body", value |-> Null]
    /\ source' = Null
    /\ files' = aged(files)
    /\ snap' = aged(files)
    /\ probed' = {}
    /\ crawled' = {}
    /\ failed' = {}
    /\ skipped' = {}
    /\ probeMatch' = {}
    /\ existingUpdates' = <<>>
    /\ quickUpdates' = <<>>
    /\ fullData' = <<>>
    /\ ret' = NoData
    /\ err' = ""
    /\ results' = <<>>
    /\ allIdx' = 0
    /\ browser' = [c \in RegisteredNames |-> Null]
    /\ pages' = [c \in RegisteredNames |-> 0]
    /\ pagesOpened' = 0
    /\ writeFailed' = {}
    /\ postSources' = IF hasSources THEN srcs ELSE <<>>
    /\ IF ~hasSources
       THEN /\ resp' = FailureResp("sources is not iterable", Now)
            /\ getPc' = "done"
            /\ scPc' = "idle"
            /\ postIdx' = 0
            /\ cur' = Null
       ELSE IF srcs = <<>>
       THEN /\ resp' = SuccessResp(TRUE, <<>>, FALSE, Now)
            /\ getPc' = "done"
            /\ scPc' = "idle"
            /\ postIdx' = 0
            /\ cur' = Null
       ELSE /\ resp' = NoResp
            /\ getPc' = "post"
            /\ scPc' = "start"
            /\ postIdx' = 1
            /\ cur' = srcs[1]
    /\ UNCHANGED <<batchVars, logVars, paused>>

\* the loop moves on to the next source of the body
PostNext ==
    /\ UNCHANGED writeFailed
    /\ UNCHANGED readVars
    /\ UNCHANGED probeVars
    /\ UNCHANGED clientVars
    /\ UNCHANGED failVars
    /\ UNCHANGED overlapVars
    /\ UNCHANGED ctxVars
    /\ UNCHANGED otherVars
    /\ getPc = "post"
    /\ scPc \in {"returned", "threw"}
    /\ postIdx < Len(postSources)
    /\ results' = pushResult(results, scPc, ret)
    /\ postIdx' = postIdx + 1
    /\ cur' = postSources[postIdx + 1]
    /\ scPc' = "start"
    /\ existingUpdates' = <<>>
    /\ quickUpdates' = <<>>
    /\ fullData' = <<>>
    /\ ret' = NoData
    /\ err' = ""
    /\ UNCHANGED <<files, requests, req, source, getPc, allIdx, resp, histVars,
                   batchVars, logVars, paused, postSources>>

\* the loop ends; the handler answers with the results
PostFinish ==
    /\ UNCHANGED writeFailed
    /\ UNCHANGED readVars
    /\ UNCHANGED probeVars
    /\ UNCHANGED clientVars
    /\ UNCHANGED failVars
    /\ UNCHANGED overlapVars
    /\ UNCHANGED ctxVars
    /\ UNCHANGED otherVars
    /\ getPc = "post"
    /\ scPc \in {"returned", "threw"}
    /\ postIdx = Len(postSources)
    /\ LET rs == pushResult(results, scPc, ret) IN
       /\ results' = rs
       /\ resp' = SuccessResp(TRUE, rs, FALSE, Now)
    /\ getPc' = "done"
    /\ scPc' = "idle"
    /\ existingUpdates' = <<>>
    /\ quickUpdates' = <<>>
    /\ fullData' = <<>>
    /\ ret' = NoData
    /\ err' = ""
    /\ UNCHANGED <<files, requests, req, source, allIdx, cur, histVars, batchVars,
                   logVars, paused, postVars>>

----------------------------------------------------------------------------
(* daily-scraper.js: runDailyScraper *)

\* sources the handler wrote during the request being served
Written == {c \in DOMAIN files : files[c].lastScraped = Now}

BatchOk(company, n) == [company |-> company, success |-> TRUE, updates |-> n, error |-> ""]
BatchFail(company, e) == [company |-> company, success |-> FALSE, updates |-> 0, error |-> e]

\* apiResult.data.find(c => c.competitor === company) || apiResult.data[0]
findCompany(data, company) ==
    LET hits == {i \in 1..Len(data) : data[i].competitor = company} IN
    IF hits # {} THEN <<data[CHOOSE i \in hits : \A j \in hits : i <= j]>>
    ELSE IF Len(data) > 0 THEN <<data[1]>>
    ELSE <<>>

\* the body of the loop after callAPI returned apiResult
batchEntry(company, apiResult) ==
    IF apiResult.status # 200 THEN BatchFail(company, "API call failed")
    ELSE IF apiResult.success
    THEN LET companyData == IF apiResult.isArray
                            THEN findCompany(apiResult.data, company)
                            ELSE apiResult.data
         IN  IF companyData # <<>>
             THEN BatchOk(company, Len(companyData[1].updates))
             ELSE BatchFail(company, "No updates found in API response")
    ELSE BatchFail(company, apiResult.error)

\* the URL the script requests: /api/scrape?company=<company>
batchRequest(company) == [param |-> "company", value |-> company]

RECURSIVE SumUpdates(_)
\* results.reduce((sum, r) => sum + (r.updates || 0), 0)
SumUpdates(rs) == IF rs = <<>> THEN 0 ELSE Head(rs).updates + SumUpdates(Tail(rs))

\* logScrapingResults: the entry of the run, stamped t
logEntry(rs, t) ==
    [timestamp |-> t,
     totalCompanies |-> Len(rs),
     successfulScrapes |-> Cardinality({i \in 1..Len(rs) : rs[i].success}),
     failedScrapes |-> Cardinality({i \in 1..Len(rs) : ~rs[i].success}),
     totalUpdates |-> SumUpdates(rs),
     companies |-> [i \in 1..Len(rs) |->
                       [name |-> rs[i].company,
                        success |-> rs[i].success,
                        updates |-> rs[i].updates,
                        error |-> IF rs[i].error = "" THEN Null ELSE rs[i].error]]]

\* logs.slice(0, 30)
sliceCap(l) == SubSeq(l, 1, IF Len(l) < LogCap THEN Len(l) ELSE LogCap)

\* the entry pushed at the end of the log instead of the front
logScrapingResultsPush(l, rs, t) == sliceCap(Append(l, logEntry(rs, t)))

\* logScrapingResults: logs.unshift(logEntry); logs = logs.slice(0, 30)
logScrapingResults(l, rs, t) == sliceCap(<<logEntry(rs, t)>> \o l)

\* new Date().toISOString() of the run that logs next: later than every
\* timestamp logged before
logTime == Len(logHistory) + 1

\* the exit code following any failed entry
batchExitAnyFailed(rs) ==
    IF \E i \in 1..Len(rs) : ~rs[i].success THEN 1 ELSE 0

\* process.exit(failed.length === results.length ? 1 : 0)
batchExit(rs) ==
    IF Cardinality({i \in 1..Len(rs) : ~rs[i].success}) = Len(rs) THEN 1 ELSE 0

\* the cron job starts the script: one run of the process, start to exit
BatchStart ==
    /\ UNCHANGED writeFailed
    /\ UNCHANGED extraVars
    /\ UNCHANGED ctxVars
    /\ UNCHANGED otherVars
    /\ batchPc = "idle"
    /\ getPc \in {"idle", "done"}
    /\ batchPc' = "loop"
    /\ batchIdx' = 1
    /\ batchResults' = <<>>
    /\ exitCode' = -1
    /\ batchCrawled' = {}
    /\ batchWritten' = {}
    /\ UNCHANGED <<files, requests, req, source, getPc, allIdx, results, scVars, resp,
                   histVars, logVars, paused>>

\* callAPI for the company in turn; fetch rejects when the server is down, and
\* the catch block's entry is followed by the 3000 ms delay
BatchCall(netOK) ==
    /\ UNCHANGED extraVars
    /\ UNCHANGED otherVars
    /\ batchPc = "loop"
    /\ batchIdx <= Len(SupportedCompanies)
    /\ IF netOK
       THEN /\ StartGet(batchRequest(SupportedCompanies[batchIdx]))
            /\ batchPc' = "waiting"
            /\ UNCHANGED <<batchIdx, batchResults, paused>>
       ELSE /\ batchResults' = Append(batchResults,
                   BatchFail(SupportedCompanies[batchIdx], "fetch failed"))
            /\ batchIdx' = batchIdx + 1
            /\ paused' = TRUE
            /\ UNCHANGED <<files, req, source, getPc, allIdx, results, scVars,
                           resp, histVars, batchPc, ctxVars, writeFailed>>
    /\ UNCHANGED <<requests, exitCode, batchCrawled, batchWritten, logVars>>

\* the response arrives; the loop records the company's entry and waits
\* 3000 ms before the next company
BatchReceive ==
    /\ UNCHANGED writeFailed
    /\ UNCHANGED extraVars
    /\ UNCHANGED ctxVars
    /\ UNCHANGED otherVars
    /\ batchPc = "waiting"
    /\ getPc = "done"
    /\ batchResults' = Append(batchResults,
                              batchEntry(SupportedCompanies[batchIdx], resp))
    /\ batchIdx' = batchIdx + 1
    /\ batchPc' = "loop"
    /\ batchCrawled' = batchCrawled \cup crawled
    /\ batchWritten' = batchWritten \cup Written
    /\ paused' = TRUE
    /\ UNCHANGED <<files, requests, req, source, getPc, allIdx, results, scVars,
                   resp, histVars, exitCode, logVars>>

\* after the loop: logScrapingResults, the summary and the exit code; when
\* the log cannot be written the rejection reaches runDailyScraper().catch
BatchFinish(writeOK) ==
    /\ UNCHANGED writeFailed
    /\ UNCHANGED extraVars
    /\ UNCHANGED ctxVars
    /\ UNCHANGED otherVars
    /\ batchPc = "loop"
    /\ batchIdx > Len(SupportedCompanies)
    /\ IF writeOK
       THEN /\ logs' = logScrapingResults(logs, batchResults, logTime)
            /\ logHistory' = <<logEntry(batchResults, logTime)>> \o logHistory
            /\ exitCode' = batchExit(batchResults)
            /\ batchPc' = "exited"
       ELSE /\ exitCode' = 1
            /\ batchPc' = "crashed"
            /\ UNCHANGED logVars
    /\ UNCHANGED <<files, requests, req, source, getPc, allIdx, results, scVars,
                   resp, histVars, batchIdx, batchResults, batchCrawled, batchWritten,
                   paused>>

\* results a finished loop hands to logScrapingResults
RunResults ==
    {<<BatchOk("vercel", 1), BatchOk("supabase", 1)>>,
     <<BatchFail("vercel", "fetch failed"), BatchFail("supabase", "fetch failed")>>}

FailedRuns == {i \in 1..Len(logHistory) : logHistory[i].successfulScrapes = 0}

\* one run of the script seen from its log: the loop ended with results rs
LogRun(rs) ==
    /\ UNCHANGED writeFailed
    /\ UNCHANGED extraVars
    /\ UNCHANGED ctxVars
    /\ UNCHANGED otherVars
    /\ batchPc = "idle"
    /\ getPc = "idle"
    /\ Len(logHistory) < MaxLogRuns
    /\ (\A i \in 1..Len(rs) : ~rs[i].success) => Cardinality(FailedRuns) < MaxFailedRuns
    /\ logs' = logScrapingResults(logs, rs, logTime)
    /\ logHistory' = <<logEntry(rs, logTime)>> \o logHistory
    /\ UNCHANGED <<files, requests, req, source, getPc, allIdx, results, scVars,
                   resp, histVars, batchVars, paused>>

----------------------------------------------------------------------------
(* BaseCompanyScraper.loadMoreContent *)

\* values document.body.scrollHeight may take
Heights == 1..MaxHeight

\* the counter never reset when the height changes
noChangeAfterNoReset(prev, curr, n) == IF prev = curr THEN n + 1 ELSE n

\* if (previousHeight === currentHeight) noChangeCount++ else noChangeCount = 0
noChangeAfter(prev, curr, n) == IF prev = curr THEN n + 1 ELSE 0

\* the scroll loop is left: by the break, or by its test attempts < 25
scrollEnds(a, n) == n >= NoChangeCap \/ ~(a < ScrollCap)

\* the heights read last, the newest at the end
remember(hs, h) ==
    LET l == Append(hs, h) IN
    IF Len(l) > NoChangeCap + 1 THEN Tail(l) ELSE l

\* scrape() calls loadMoreContent(page)
LM_Start ==
    /\ UNCHANGED writeFailed
    /\ UNCHANGED extraVars
    /\ UNCHANGED dateVars
    /\ UNCHANGED classifyVars
    /\ UNCHANGED ctxVars
    /\ lmPc \in {"idle", "done"}
    /\ getPc = "idle"
    /\ batchPc = "idle"
    /\ lmPc' = "click"
    /\ lmI' = 0
    /\ attempts' = 0
    /\ noChangeCount' = 0
    /\ previousHeight' = 0
    /\ currentHeight' = 0
    /\ clickRounds' = 0
    /\ recentHeights' = <<>>
    /\ lmErr' = FALSE
    /\ UNCHANGED <<files, requests, req, source, getPc, allIdx, results, scVars,
                   resp, histVars, batchVars, logVars, paused>>

\* one round of the click loop: foundButton tells whether some selector had a
\* visible button whose click went through (errors of $$, isVisible and click
\* are caught inside the round)
LM_Click(foundButton) ==
    /\ UNCHANGED writeFailed
    /\ UNCHANGED extraVars
    /\ UNCHANGED dateVars
    /\ UNCHANGED classifyVars
    /\ UNCHANGED ctxVars
    /\ lmPc = "click"
    /\ clickRounds' = clickRounds + 1
    /\ IF foundButton
       THEN /\ lmI' = lmI + 1
            /\ lmPc' = IF lmI + 1 < ClickCap THEN "click" ELSE "height"
       ELSE /\ lmPc' = "height"
            /\ UNCHANGED lmI
    /\ UNCHANGED <<attempts, noChangeCount, previousHeight, currentHeight,
                   recentHeights, lmErr>>
    /\ UNCHANGED <<files, requests, req, source, getPc, allIdx, results, scVars,
                   resp, histVars, batchVars, logVars, paused>>

\* let currentHeight = await page.evaluate(...); a rejection goes to the catch
LM_Height(evalOK, h) ==
    /\ UNCHANGED writeFailed
    /\ UNCHANGED extraVars
    /\ UNCHANGED dateVars
    /\ UNCHANGED classifyVars
    /\ UNCHANGED ctxVars
    /\ lmPc = "height"
    /\ IF evalOK
       THEN /\ currentHeight' = h
            /\ recentHeights' = <<h>>
            /\ lmPc' = IF scrollEnds(attempts, noChangeCount) THEN "done" ELSE "scroll"
            /\ UNCHANGED lmErr
       ELSE /\ lmPc' = "done"
            /\ lmErr' = TRUE
            /\ UNCHANGED <<currentHeight, recentHeights>>
    /\ UNCHANGED <<lmI, clickRounds, attempts, noChangeCount, previousHeight>>
    /\ UNCHANGED <<files, requests, req, source, getPc, allIdx, results, scVars,
                   resp, histVars, batchVars, logVars, paused>>

\* one round of the scroll loop: scroll, read the height h, count
LM_Scroll(evalOK, h) ==
    /\ UNCHANGED writeFailed
    /\ UNCHANGED extraVars
    /\ UNCHANGED dateVars
    /\ UNCHANGED classifyVars
    /\ UNCHANGED ctxVars
    /\ lmPc = "scroll"
    /\ IF evalOK
       THEN /\ previousHeight' = currentHeight
            /\ currentHeight' = h
            /\ attempts' = attempts + 1
            /\ noChangeCount' = noChangeAfter(currentHeight, h, noChangeCount)
            /\ recentHeights' = remember(recentHeights, h)
            /\ lmPc' = IF scrollEnds(attempts', noChangeCount') THEN "done" ELSE "scroll"
            /\ UNCHANGED lmErr
       ELSE /\ lmPc' = "done"
            /\ lmErr' = TRUE
            /\ UNCHANGED <<previousHeight, currentHeight, attempts, noChangeCount,
                           recentHeights>>
    /\ UNCHANGED <<lmI, clickRounds>>
    /\ UNCHANGED <<files, requests, req, source, getPc, allIdx, results, scVars,
                   resp, histVars, batchVars, logVars, paused>>

----------------------------------------------------------------------------
(* BaseCompanyScraper.classifyUpdateType *)

\* words of the texts classified
W_Fix == <<"F", "i", "x">>
W_breaking == <<"b", "r", "e", "a", "k", "i", "n", "g">>
W_new == <<"n", "e", "w">>
W_Security == <<"S", "e", "c", "u", "r", "i", "t", "y">>
W_faster == <<"f", "a", "s", "t", "e", "r">>
W_update == <<"u", "p", "d", "a", "t", "e">>
W_cost == <<"c", "o", "s", "t">>

TitleWords == {W_Fix, W_breaking, W_new, W_Security, W_faster}

RECURSIVE joinWords(_)
\* the words of a text separated by single spaces
joinWords(ws) ==
    IF ws = <<>> THEN <<>>
    ELSE IF Len(ws) = 1 THEN ws[1]
    ELSE ws[1] \o <<" ">> \o joinWords(Tail(ws))

\* titles of up to MaxWords words, the empty title included
ClsTitles == {joinWords(ws) : ws \in SeqsUpTo(TitleWords, MaxWords)}

ClsDescriptions == {<<>>, W_cost, W_update}

\* one call of classifyUpdateType
Classify(title, description) ==
    /\ UNCHANGED writeFailed
    /\ UNCHANGED extraVars
    /\ UNCHANGED dateVars
    /\ clsType = Null
    /\ getPc = "idle"
    /\ batchPc = "idle"
    /\ clsTitle' = title
    /\ clsDescription' = description
    /\ clsType' = classifyUpdateType(title, description)
    /\ UNCHANGED <<files, requests, req, source, getPc, allIdx, results, scVars,
                   resp, histVars, batchVars, logVars, paused, loadVars, ctxVars>>

----------------------------------------------------------------------------
(* BaseCompanyScraper.parseDate *)

DateTexts ==
    {<<>>, D0, D1, D2, R_Blank, R_IsoPadded, R_BadMonth, R_Us, R_Jan1, R_DaysAgo,
     R_Yesterday, R_Quarter, R_Chicago}

\* what the engine's parser may make of a string that is not a date-only ISO
\* string (implementation-defined)
LegacyOutcomes == {Invalid, D1, D2}

\* one call of parseDate
ParseDate(str, legacy) ==
    /\ UNCHANGED writeFailed
    /\ UNCHANGED extraVars
    /\ dateOut = Null
    /\ getPc = "idle"
    /\ batchPc = "idle"
    /\ dateStr' = str
    /\ dateLegacy' = legacy
    /\ dateOut' = parseDate(str, Today, legacy)
    /\ UNCHANGED <<files, requests, req, source, getPc, allIdx, results, scVars,
                   resp, histVars, batchVars, logVars, paused, loadVars, ctxVars,
                   classifyVars>>

----------------------------------------------------------------------------
(* BaseCompanyScraper.quickScrapeCheck on a page of its own *)

\* elements the selector may match: with a title, with none, with a date text
MatchedEntries == {Upd(T_Launch, D1), Upd(<<>>, D1), Upd(T_Supa, R_Jan1)}

\* one call of quickScrapeCheck(page)
QuickScrapeCheck(idleOK, evalOK, matched) ==
    /\ UNCHANGED writeFailed
    /\ UNCHANGED ctxVars
    /\ UNCHANGED otherVars
    /\ UNCHANGED readVars
    /\ UNCHANGED postVars
    /\ UNCHANGED clientVars
    /\ UNCHANGED failVars
    /\ UNCHANGED overlapVars
    /\ qcPc = "idle"
    /\ getPc = "idle"
    /\ batchPc = "idle"
    /\ qcIdle' = idleOK
    /\ qcEval' = evalOK
    /\ qcMatched' = matched
    /\ LET o == quickScrapeCheckCall(idleOK, evalOK, matched) IN
       /\ qcOut' = o.updates
       /\ qcThrew' = o.threw
    /\ qcPc' = "done"
    /\ UNCHANGED <<files, requests, req, source, getPc, allIdx, results, scVars,
                   resp, histVars, batchVars, logVars, paused>>

----------------------------------------------------------------------------
(* ChangelogClient in a page *)

\* the Update[] the client builds from a response
FetchedUpdates == {<<T_Launch>>, <<T_New, T_Launch>>}

\* a minute passes in the browser
Tick ==
    /\ clock < MaxClock
    /\ clock' = clock + 1
    /\ UNCHANGED <<cache, clPc, clOp, clSources, clFetchOK, clUpdates,
                   clBefore, clAt, clFetched, clOut, clThrew>>
    /\ UNCHANGED <<pipelineVars, otherVars, readVars, postVars, probeVars, failVars, overlapVars>>

\* a page calls fetchScrapedChangelogs (op = "fetch") or refreshChangelogs
ClientCall(op, sources, fetchOK, updates) ==
    /\ clOp' = op
    /\ clSources' = sources
    /\ clFetchOK' = fetchOK
    /\ clUpdates' = updates
    /\ clBefore' = cache[cacheKey(sources)]
    /\ clAt' = clock
    /\ LET o == IF op = "fetch"
                THEN fetchScrapedChangelogs(cache, sources, clock, fetchOK, updates)
                ELSE refreshChangelogs(cache, sources, clock, fetchOK, updates)
       IN  /\ cache' = o.cache
           /\ clOut' = o.out
           /\ clThrew' = o.threw
           /\ clFetched' = o.fetched
    /\ clPc' = "done"
    /\ UNCHANGED clock
    /\ UNCHANGED <<pipelineVars, otherVars, readVars, postVars, probeVars, failVars, overlapVars>>

----------------------------------------------------------------------------
(* DataStore.storeFailure *)

\* a caller records a failure of a source between two requests
StoreFailure(c) ==
    /\ sfPc = "idle"
    /\ getPc \in {"idle", "done"}
    /\ batchPc = "idle"
    /\ sfBefore' = files[c]
    /\ sfCompetitor' = c
    /\ sfAt' = requests
    /\ files' = storeFailure(files, c, Now)
    /\ sfPc' = "done"
    /\ UNCHANGED <<requests, req, source, getPc, allIdx, results, scVars, resp,
                   histVars, batchVars, logVars, paused, ctxVars, writeFailed>>
    /\ UNCHANGED <<otherVars, readVars, postVars, probeVars, clientVars, overlapVars>>

\* the requests sent around the call
FailureRequests == {[param |-> "source", value |-> "vercel"]}

----------------------------------------------------------------------------
(* Two GET requests for one source handled at the same time: each has its own
   ChangelogScraper and DataStore object and shares the data directory; the
   handlers interleave at their awaits *)

OverlapSource == "vercel"

\* everything but the data directory and the two requests
overlapRest == <<requests, req, source, getPc, allIdx, results, cur, scPc,
                 existingUpdates, quickUpdates, fullData, ret, err, resp,
                 snap, probed, crawled, failed, skipped, probeMatch,
                 batchPc, batchIdx, batchResults, exitCode, batchCrawled,
                 batchWritten, logs, logHistory, paused, browser, pages,
                 pagesOpened, writeFailed, otherVars, readVars, postVars,
                 probeVars, clientVars, failVars>>

\* scraper.init(), loadExistingData
OvLoad(p) ==
    /\ ovPc[p] = "start"
    /\ ovExisting' = [ovExisting EXCEPT ![p] = loadExistingData(files, OverlapSource)]
    /\ ovPc' = [ovPc EXCEPT ![p] = afterLoad(ovExisting'[p])]
    /\ UNCHANGED <<files, ovRet, ovStored, ovFirst>>
    /\ UNCHANGED overlapRest

\* page.goto, quickScrapeCheck, shouldSkipScraping
OvProbe(p, navOK, evalOK, matched) ==
    /\ ovPc[p] = "probe"
    /\ IF ~navOK
       THEN /\ ovPc' = [ovPc EXCEPT ![p] = "threw"]
            /\ UNCHANGED ovRet
       ELSE IF shouldSkipScraping(ovExisting[p], quickScrapeCheck(matched, evalOK))
            THEN /\ ovRet' = [ovRet EXCEPT
                                 ![p] = ScrapedData(OverlapSource, ovExisting[p], Now)]
                 /\ ovPc' = [ovPc EXCEPT ![p] = "returned"]
            ELSE /\ ovPc' = [ovPc EXCEPT ![p] = "full"]
                 /\ UNCHANGED ovRet
    /\ UNCHANGED <<files, ovExisting, ovStored, ovFirst>>
    /\ UNCHANGED overlapRest

\* scraper.scrape(), filterNewUpdates, the merge
OvFull(p, crawlOK, fullUpdates) ==
    /\ ovPc[p] = "full"
    /\ LET o == scrapeOutcome(OverlapSource, ovExisting[p], crawlOK, fullUpdates) IN
       /\ ovPc' = [ovPc EXCEPT ![p] = o.pc]
       /\ ovRet' = [ovRet EXCEPT ![p] = o.ret]
    /\ UNCHANGED <<files, ovExisting, ovStored, ovFirst>>
    /\ UNCHANGED overlapRest

\* await dataStore.store(source, result)
OvStore(p) ==
    /\ ovPc[p] = "returned"
    /\ files' = store(files, OverlapSource, ovRet[p], Now)
    /\ ovFirst' = IF ovStored = <<>> THEN ovRet[p].updates ELSE ovFirst
    /\ ovStored' = Append(ovStored, p)
    /\ ovPc' = [ovPc EXCEPT ![p] = "done"]
    /\ UNCHANGED <<ovExisting, ovRet>>
    /\ UNCHANGED overlapRest

\* catch (error): the response comes from the stored record, nothing is written
OvCatch(p) ==
    /\ ovPc[p] = "threw"
    /\ ovPc' = [ovPc EXCEPT ![p] = "done"]
    /\ UNCHANGED <<files, ovExisting, ovRet, ovStored, ovFirst>>
    /\ UNCHANGED overlapRest

----------------------------------------------------------------------------
(* The read interface *)

\* a reader calls DataStore.retrieveAll
RetrieveAll ==
    /\ UNCHANGED writeFailed
    /\ UNCHANGED ctxVars
    /\ UNCHANGED otherVars
    /\ UNCHANGED postVars
    /\ UNCHANGED probeVars
    /\ UNCHANGED clientVars
    /\ UNCHANGED failVars
    /\ UNCHANGED overlapVars
    /\ readPc = "idle"
    /\ batchPc = "idle"
    /\ getPc = "idle"
    /\ allData' = retrieveAll(files, logs)
    /\ readPc' = "done"
    /\ UNCHANGED <<files, requests, req, source, getPc, allIdx, results, scVars,
                   resp, histVars, batchVars, logVars, paused>>

----------------------------------------------------------------------------
Requests ==
    {[param |-> "source", value |-> v] : v \in RegisteredNames \cup {Unregistered, "all"}}

Next ==
    \/ \E r \in Requests : ApiGet(r)
    \/ SC_Load
    \/ \E navOK \in BOOLEAN, evalOK \in BOOLEAN :
         \E matched \in (IF navOK /\ evalOK THEN ProbeResults(cur) ELSE {<<>>}) :
            SC_Probe(navOK, evalOK, matched)
    \/ \E crawlOK \in BOOLEAN :
         \E fullUpdates \in (IF crawlOK THEN FullResults(cur) ELSE {<<>>}) :
            SC_Full(crawlOK, fullUpdates)
    \/ GetSingleStore
    \/ GetSingleCatch
    \/ AllNext
    \/ AllFinish

Spec == Init /\ [][Next]_vars

\* the batch script as the only client of the route
NextBatch ==
    \/ BatchStart
    \/ \E netOK \in BOOLEAN : BatchCall(netOK)
    \/ BatchReceive
    \/ \E writeOK \in BOOLEAN : BatchFinish(writeOK)
    \/ SC_Load
    \/ \E navOK \in BOOLEAN, evalOK \in BOOLEAN :
         \E matched \in (IF navOK /\ evalOK THEN ProbeResults(cur) ELSE {<<>>}) :
            SC_Probe(navOK, evalOK, matched)
    \/ \E crawlOK \in BOOLEAN :
         \E fullUpdates \in (IF crawlOK THEN FullResults(cur) ELSE {<<>>}) :
            SC_Full(crawlOK, fullUpdates)
    \/ AllNext
    \/ AllFinish

SpecBatch == Init /\ [][NextBatch]_vars

\* the route with a data directory whose writes may fail
NextFault ==
    \/ \E r \in Requests : ApiGet(r)
    \/ SC_Load
    \/ \E navOK \in BOOLEAN, evalOK \in BOOLEAN :
         \E matched \in (IF navOK /\ evalOK THEN ProbeResults(cur) ELSE {<<>>}) :
            SC_Probe(navOK, evalOK, matched)
    \/ \E crawlOK \in BOOLEAN :
         \E fullUpdates \in (IF crawlOK THEN FullResults(cur) ELSE {<<>>}) :
            SC_Full(crawlOK, fullUpdates)
    \/ \E writeOK \in BOOLEAN : GetSingleStoreW(writeOK)
    \/ GetSingleCatch
    \/ AllNext
    \/ \E bad \in SUBSET RegisteredNames : AllFinishW(bad)

SpecFault == Init /\ [][NextFault]_vars

\* the route with a data directory whose reads may fail
NextLoadFault ==
    \/ \E r \in Requests : ApiGet(r)
    \/ \E readOK \in BOOLEAN : SC_LoadR(readOK)
    \/ \E navOK \in BOOLEAN, evalOK \in BOOLEAN :
         \E matched \in (IF navOK /\ evalOK THEN ProbeResults(cur) ELSE {<<>>}) :
            SC_Probe(navOK, evalOK, matched)
    \/ \E crawlOK \in BOOLEAN :
         \E fullUpdates \in (IF crawlOK THEN FullResults(cur) ELSE {<<>>}) :
            SC_Full(crawlOK, fullUpdates)
    \/ GetSingleStore
    \/ GetSingleCatch
    \/ AllNext
    \/ AllFinish

SpecLoadFault == Init /\ [][NextLoadFault]_vars

\* requests for one source, and a caller of storeFailure
NextFailure ==
    \/ \E r \in FailureRequests : ApiGet(r)
    \/ SC_Load
    \/ \E navOK \in BOOLEAN, evalOK \in BOOLEAN :
         \E matched \in (IF navOK /\ evalOK THEN ProbeResults(cur) ELSE {<<>>}) :
            SC_Probe(navOK, evalOK, matched)
    \/ \E crawlOK \in BOOLEAN :
         \E fullUpdates \in (IF crawlOK THEN FullResults(cur) ELSE {<<>>}) :
            SC_Full(crawlOK, fullUpdates)
    \/ GetSingleStore
    \/ GetSingleCatch
    \/ \E c \in RegisteredNames : StoreFailure(c)

SpecFailure == Init /\ [][NextFailure]_vars

\* two requests for one source in flight together
NextOverlap ==
    \/ \E p \in Overlapping : OvLoad(p)
    \/ \E p \in Overlapping, navOK \in BOOLEAN, evalOK \in BOOLEAN :
         \E matched \in (IF navOK /\ evalOK THEN ProbeResults(OverlapSource) ELSE {<<>>}) :
            OvProbe(p, navOK, evalOK, matched)
    \/ \E p \in Overlapping, crawlOK \in BOOLEAN :
         \E fullUpdates \in (IF crawlOK THEN FullResults(OverlapSource) ELSE {<<>>}) :
            OvFull(p, crawlOK, fullUpdates)
    \/ \E p \in Overlapping : OvStore(p)
    \/ \E p \in Overlapping : OvCatch(p)

SpecOverlap == Init /\ [][NextOverlap]_vars

\* clients of the POST handler
NextPost ==
    \/ \E hasSources \in BOOLEAN :
         \E srcs \in (IF hasSources THEN PostBodies ELSE {<<>>}) :
            ApiPost(hasSources, srcs)
    \/ SC_Load
    \/ \E navOK \in BOOLEAN, evalOK \in BOOLEAN :
         \E matched \in (IF navOK /\ evalOK THEN ProbeResults(cur) ELSE {<<>>}) :
            SC_Probe(navOK, evalOK, matched)
    \/ \E crawlOK \in BOOLEAN :
         \E fullUpdates \in (IF crawlOK THEN FullResults(cur) ELSE {<<>>}) :
            SC_Full(crawlOK, fullUpdates)
    \/ PostNext
    \/ PostFinish

SpecPost == Init /\ [][NextPost]_vars

\* the run log over many runs of the script
NextLog == \E rs \in RunResults : LogRun(rs)

SpecLog == Init /\ [][NextLog]_vars

\* runs of the script, then a reader of the data directory
NextRead ==
    \/ \E rs \in RunResults : LogRun(rs)
    \/ RetrieveAll

SpecRead == Init /\ [][NextRead]_vars

\* calls of quickScrapeCheck on any page
NextProbe ==
    \E idleOK \in BOOLEAN, evalOK \in BOOLEAN :
        \E matched \in SeqsUpTo(MatchedEntries, MaxMatched) :
            QuickScrapeCheck(idleOK, evalOK, matched)

SpecProbe == Init /\ [][NextProbe]_vars

\* a page using the client while time passes
NextClient ==
    \/ Tick
    \/ \E op \in {"fetch", "refresh"}, sources \in ClientSources, fetchOK \in BOOLEAN :
         \E updates \in (IF fetchOK THEN FetchedUpdates ELSE {<<>>}) :
            ClientCall(op, sources, fetchOK, updates)

SpecClient == Init /\ [][NextClient]_vars

\* loadMoreContent on its own; every await settles (the page answers or the
\* call rejects, the timers fire), so a pending step is eventually taken
NextLoad ==
    \/ LM_Start
    \/ \E foundButton \in BOOLEAN : LM_Click(foundButton)
    \/ \E evalOK \in BOOLEAN : \E h \in (IF evalOK THEN Heights ELSE {0}) :
          LM_Height(evalOK, h)
    \/ \E evalOK \in BOOLEAN : \E h \in (IF evalOK THEN Heights ELSE {0}) :
          LM_Scroll(evalOK, h)

SpecLoad == Init /\ [][NextLoad]_vars /\ WF_vars(NextLoad)

\* classifyUpdateType applied to each text
NextClassify ==
    \E title \in ClsTitles, description \in ClsDescriptions : Classify(title, description)

SpecClassify == Init /\ [][NextClassify]_vars

\* parseDate applied to each date text
NextDate == \E str \in DateTexts, legacy \in LegacyOutcomes : ParseDate(str, legacy)

SpecDate == Init /\ [][NextDate]_vars

TypeOK ==
    /\ getPc \in {"idle", "single", "all", "post", "done"}
    /\ scPc \in {"idle", "start", "probe", "full", "returned", "threw"}
    /\ requests \in 0..MaxRequests

----------------------------------------------------------------------------
(* Claims *)

AllowList == {SupportedCompanies[i] : i \in 1..Len(SupportedCompanies)}

\* a refresh is under way or has just ended and its frame is still there
InRefresh == scPc \in {"probe", "full", "returned", "threw"}

\* the refresh in hand ran the full crawl against stored history and returned
MergedAfterCrawl ==
    /\ scPc = "returned"
    /\ cur \in crawled
    /\ Len(existingUpdates) > 0

\* positions of N whose trimmed title is the trimmed title of no entry of E
NewIdx(E, N) ==
    {i \in 1..Len(N) : \A j \in 1..Len(E) : Trim(N[i].title) # Trim(E[j].title)}

\* the r-th smallest element of the set of positions K
Nth(K, r) == CHOOSE i \in K : Cardinality({j \in K : j < i}) = r - 1

NoDupTitles(M) ==
    \A i, j \in 1..Len(M) : i # j => Trim(M[i].title) # Trim(M[j].title)

NoHistory(f) == ~f.exists \/ ~f.readable \/ Len(f.updates) = 0

RespEntries(c) == {i \in 1..Len(resp.data) : resp.data[i].competitor = c}

\* C1: a failed refresh never destroys history: for every source with a
\* persisted record whose refresh met an error (navigation, probe or full
\* crawl), the persisted record is the one persisted before the request began.
InvC1 ==
    \A c \in failed \cap DOMAIN files :
        snap[c].exists => files[c] = snap[c]

WitC1 ==
    /\ getPc = "done"
    /\ \E c \in (failed \cap crawled) \cap DOMAIN files : Len(snap[c].updates) > 0

\* C2: de-duplication count: with stored updates E (non-empty) and a full
\* crawl yielding N, the merged record is E preceded by exactly the entries of
\* N whose trimmed title equals no trimmed title of E, compared case-sensitively;
\* the number of entries prepended is the number of such entries of N.
InvC2 ==
    MergedAfterCrawl =>
        LET E == snap[cur].updates
            N == fullData
            M == ret.updates
            k == Cardinality(NewIdx(E, N))
        IN  /\ existingUpdates = E
            /\ Len(M) = k + Len(E)
            /\ SubSeq(M, k + 1, Len(M)) = E
            /\ \A r \in 1..k : \E i \in NewIdx(E, N) : M[r] = N[i]
            /\ \A i \in NewIdx(E, N) : \E r \in 1..k : M[r] = N[i]

WitC2 ==
    /\ MergedAfterCrawl
    /\ existingUpdates = <<Upd(T_LaunchPad, D1), Upd(T_new, D2)>>
    /\ fullData = <<Upd(T_Launch, D1), Upd(T_New, D2)>>
    /\ ret.updates = <<Upd(T_New, D2), Upd(T_LaunchPad, D1), Upd(T_new, D2)>>

\* C3: title uniqueness: after any refresh that performs a full crawl the
\* merged record contains no two entries with the same trimmed title.
InvC3 ==
    (scPc = "returned" /\ cur \in crawled) => NoDupTitles(ret.updates)

\* C4: merge ordering: every retained new entry precedes every stored entry,
\* the retained new entries stand in the order the crawl produced them, and
\* the stored entries keep their stored order.
InvC4 ==
    MergedAfterCrawl =>
        LET E == existingUpdates
            N == fullData
            M == ret.updates
            K == NewIdx(E, N)
            k == Len(M) - Len(E)
        IN  /\ k = Cardinality(K)
            /\ \A r \in 1..k : M[r] = N[Nth(K, r)]
            /\ \A j \in 1..Len(E) : M[k + j] = E[j]

WitC4 ==
    /\ MergedAfterCrawl
    /\ fullData = <<Upd(T_Launch, D1), Upd(T_New, D2)>>
    /\ ret.updates = <<Upd(T_Launch, D1), Upd(T_New, D2), Upd(T_Old, D0)>>

\* C5: skip-path idempotence: when the probe's first result has the trimmed
\* title and the date of the first stored entry, the refresh runs no full
\* crawl and returns the stored updates with a fresh lastScraped, and the
\* record persisted when the request ends holds those same updates.
InvC5 ==
    /\ (scPc \in {"full", "returned", "threw"} /\ cur \in probeMatch) =>
          /\ scPc = "returned"
          /\ cur \notin crawled
          /\ ret = ScrapedData(cur, snap[cur].updates, Now)
    /\ getPc = "done" =>
          \A c \in probeMatch :
              /\ c \notin crawled
              /\ files[c] = StoredData(snap[c].updates, TRUE, Now)
              /\ \E i \in RespEntries(c) :
                    resp.data[i] = ScrapedData(c, snap[c].updates, Now)

WitC5 ==
    /\ getPc = "done"
    /\ "vercel" \in probeMatch
    /\ files["vercel"].updates = <<Upd(T_LaunchPad, D1), Upd(T_new, D2)>>
    /\ files["vercel"].lastScraped = Now

\* C6: an empty probe is conservative: with stored history and a probe that
\* returns no entries the refresh goes on to the full crawl and never takes
\* the skip path.
InvC6 ==
    (scPc \in {"full", "returned"} /\ cur \in probed /\ quickUpdates = <<>>) =>
        cur \notin skipped

\* C7: no usable record means full crawl with no probe: when the source has no
\* file, a file that cannot be read, or a record with zero updates, the refresh
\* goes straight to the full extraction, never runs the quick probe, and
\* returns the crawl's entries as they are, duplicates included.
InvC7 ==
    (InRefresh /\ cur \in RegisteredNames /\ NoHistory(snap[cur])) =>
        /\ scPc # "probe"
        /\ cur \notin probed
        /\ scPc \in {"returned", "threw"} => cur \in crawled
        /\ scPc = "returned" => ret.updates = fullData

WitC7 ==
    /\ scPc = "returned"
    /\ snap[cur].exists /\ snap[cur].readable /\ Len(snap[cur].updates) = 0
    /\ ret.updates = <<Upd(T_Launch, D1), Upd(T_Launch, D1)>>

\* C8: failure isolation: in an all-sources refresh every registered source is
\* attempted whatever the others did; a source whose refresh threw keeps its
\* persisted record and is absent from the response; every other source has
\* exactly one entry in the response and that entry is what is persisted.
InvC8 ==
    (getPc = "done" /\ source = "all") =>
        \A n \in 1..Len(Registry) :
            LET c == Registry[n] IN
            /\ c \in (failed \cup crawled) \cup skipped
            /\ c \in failed => (files[c] = snap[c] /\ RespEntries(c) = {})
            /\ c \notin failed =>
                  /\ Cardinality(RespEntries(c)) = 1
                  /\ \A i \in RespEntries(c) :
                        files[c] = StoredData(resp.data[i].updates, TRUE, Now)

WitC8 ==
    /\ getPc = "done"
    /\ source = "all"
    /\ failed = {"vercel"}
    /\ Len(snap["vercel"].updates) > 0
    /\ files["stripe"].lastScraped = Now
    /\ files["supabase"].lastScraped = Now

\* C9: single-source cache fallback: when a single-source request fails, the
\* store is not written; if it holds a readable record of the source with
\* success = true the response is a success carrying that record and marked
\* fromCache, otherwise it is a failure with an error string and a timestamp.
InvC9 ==
    (getPc = "done" /\ source \notin {"all", Null} /\ source \in failed) =>
        /\ files = snap
        /\ IF /\ source \in DOMAIN snap
              /\ snap[source].exists /\ snap[source].readable /\ snap[source].success
           THEN /\ resp.success
                /\ resp.fromCache
                /\ resp.data = <<snap[source]>>
           ELSE /\ ~resp.success
                /\ ~resp.fromCache
                /\ resp.error # ""
                /\ resp.timestamp = Now

WitC9 ==
    /\ getPc = "done"
    /\ source = "vercel"
    /\ source \in failed
    /\ resp.fromCache
    /\ Len(resp.data[1].updates) > 0

\* C10: batch allow-list: a batch run crawls only the sources on its list and
\* rewrites the record of no other source.
InvC10 ==
    /\ batchCrawled \subseteq AllowList
    /\ batchWritten \subseteq AllowList

\* the entry the batch loop recorded last
LastEntry == batchResults[Len(batchResults)]

\* C11: the batch per-source verdict is truthful: an entry with success = true
\* belongs to a source whose own refresh succeeded in that call and its count
\* is the length of that source's own updates; a source whose refresh failed
\* is recorded with success = false and an error.
InvC11 ==
    (batchPc = "loop" /\ getPc = "done" /\ batchResults # <<>>) =>
        LET e == LastEntry
            c == e.company
        IN  /\ e.success =>
                  /\ c \notin failed
                  /\ \E i \in RespEntries(c) :
                        e.updates = Len(resp.data[i].updates)
            /\ c \in failed => (~e.success /\ e.error # "")

InvC14 ==
    (scPc = "start" /\ (allIdx > 1 \/ batchIdx > 1)) => paused

\* the last NoChangeCap rounds of the scroll loop all read the height that was
\* there before them
Unchanged3 ==
    /\ Len(recentHeights) = NoChangeCap + 1
    /\ \A k \in 1..Len(recentHeights) : recentHeights[k] = recentHeights[1]

\* the click loop and the scroll loop keep within their caps and stop where
\* they should
LoadBounded ==
    /\ clickRounds <= ClickCap
    /\ attempts <= ScrollCap
    /\ lmPc = "click" => (clickRounds = lmI /\ lmI < ClickCap)
    /\ lmPc \in {"height", "scroll", "done"} =>
          \/ clickRounds = ClickCap /\ lmI = ClickCap
          \/ clickRounds = lmI + 1
    /\ lmPc = "scroll" => (attempts < ScrollCap /\ ~Unchanged3)
    /\ (lmPc = "done" /\ ~lmErr) => (attempts = ScrollCap \/ Unchanged3)
    /\ noChangeCount =
          Cardinality({k \in 2..Len(recentHeights) :
                          \A j \in k..Len(recentHeights) :
                              recentHeights[j] = recentHeights[j - 1]})

\* C15: pagination terminates: loadMoreContent always ends; its click loop runs
\* at most 5 rounds and stops at the first round that clicked no visible
\* button; its scroll loop runs at most 25 rounds and stops as soon as the
\* height has been unchanged for 3 consecutive rounds, the count starting
\* again whenever the height changes.
LiveC15 ==
    /\ []LoadBounded
    /\ (lmPc \in {"click", "height", "scroll"}) ~> (lmPc = "done")

WitC15 ==
    /\ lmPc = "done"
    /\ ~lmErr
    /\ clickRounds = ClickCap
    /\ attempts = ScrollCap
    /\ ~Unchanged3

\* C16: the render context is always released: when scrapeCompany returns or
\* throws (skip path, full crawl done, probe navigation error, full-crawl
\* error) every page opened during the refresh is closed and the scraper's
\* browser is closed and null again; when the request is answered no scraper
\* holds a browser or a page.
InvC16 ==
    /\ (scPc \in {"returned", "threw"} /\ cur \in RegisteredNames) =>
          /\ browser[cur] = Null
          /\ pages[cur] = 0
    /\ getPc = "done" =>
          \A c \in RegisteredNames : browser[c] = Null /\ pages[c] = 0

WitC16 ==
    /\ scPc = "threw"
    /\ cur \in probed
    /\ cur \in crawled
    /\ pagesOpened = 2
    /\ browser[cur] = Null

\* the text classifyUpdateType looks at, in lower case
ClsContent == toLowerCase(clsTitle \o <<" ">> \o clsDescription)

\* the types in priority order; the last one is the default
TypePriority == <<"breaking", "security", "performance", "bugfix", "pricing", "feature">>

\* C17: type classification priority: the classifier returns exactly one of
\* the seven types, the type of the first keyword group (in the order
\* breaking/deprecated, security/vulnerability, performance/speed/faster,
\* bug/fix/issue, pricing/plan/cost, new/add/launch) one of whose keywords the
\* text contains, and improvement when it contains none; "fix" with "breaking"
\* is breaking, "new security fix" is security, "faster" alone is performance.
InvC17 ==
    clsType # Null =>
        /\ clsType \in UpdateTypes
        /\ \A g \in 1..Len(TypePriority) :
              clsType = TypePriority[g] <=>
                  /\ \E kw \in Keywords[g] : includes(ClsContent, kw)
                  /\ \A h \in 1..(g - 1) : \A kw \in Keywords[h] : ~includes(ClsContent, kw)
        /\ clsType = "improvement" <=>
              \A g \in 1..Len(TypePriority) : \A kw \in Keywords[g] : ~includes(ClsContent, kw)
        /\ (clsTitle = joinWords(<<W_Fix, W_breaking>>) /\ clsDescription = <<>>)
              => clsType = "breaking"
        /\ (clsTitle = joinWords(<<W_new, W_Security, W_Fix>>) /\ clsDescription = <<>>)
              => clsType = "security"
        /\ (clsTitle = W_faster /\ clsDescription = <<>>) => clsType = "performance"

WitC17 ==
    /\ clsTitle = joinWords(<<W_new, W_Security, W_Fix>>)
    /\ clsDescription = <<>>
    /\ clsType = "security"

\* a date-only ISO string of an existing day
IsIsoDate(str) ==
    /\ isoFormat(str)
    /\ twoDigits(str, 6) \in 1..12
    /\ twoDigits(str, 9) \in 1..31

\* the text handed to parseDate is empty, has none of the known shapes, or has
\* one but the engine makes no date of it
Unparseable ==
    LET c == Trim(dateStr) IN
    \/ dateStr = <<>>
    \/ ~(isoFormat(c) \/ usFormat(c) \/ monthFormat(c) \/ agoFormat(c))
    \/ (isoFormat(c) /\ ~IsIsoDate(c))
    \/ (~isoFormat(c) /\ dateLegacy = Invalid)

\* C18: date fallback: parseDate never raises and always returns an ISO date;
\* for an empty string, a string of none of the known shapes, or a string of a
\* known shape that cannot be parsed, it returns the crawl's current date.
InvC18 ==
    dateOut # Null =>
        /\ dateOut # Invalid
        /\ IsIsoDate(dateOut)
        /\ Unparseable => dateOut = Today

WitC18 ==
    /\ dateStr = R_DaysAgo
    /\ dateLegacy = Invalid
    /\ dateOut = Today

\* C19: normalized dates everywhere: every update of a record a refresh
\* returns, whether it came from the quick probe or from an adapter's full
\* extraction, carries a normalized ISO date, never the raw date text of the
\* page.
InvC19 ==
    /\ \A k \in 1..Len(quickUpdates) : IsIsoDate(quickUpdates[k].date)
    /\ scPc = "returned" => \A k \in 1..Len(ret.updates) : IsIsoDate(ret.updates[k].date)

\* C20: persistence failures are surfaced: when the write of a source's record
\* fails the caller of store observes it (the response does not report
\* success for that source) and no other source's record is touched by the
\* failure; and when the catch block reads a record that cannot be read the
\* caller gets something else than the null that stands for 'no record'.
InvC20 ==
    getPc = "done" =>
        /\ \A c \in writeFailed :
              /\ ~(resp.success /\ RespEntries(c) # {})
              /\ files[c] = snap[c]
        /\ (source \notin {"all", Null} /\ writeFailed # {}) =>
              \A c \in DOMAIN files : files[c] = snap[c]
        /\ (source \in failed /\ source \in DOMAIN files) =>
              ((files[source].exists /\ ~files[source].readable)
                  => retrieve(files, source) # NoFile)

\* a source has a persisted record: its file exists and parses
Persisted(c) == files[c].exists /\ files[c].readable

\* C21: read interface completeness: the list retrieveAll returns holds exactly
\* one record per source with a persisted record and nothing else; the run log
\* the batch script writes into the same directory is never an element of it.
InvC21 ==
    readPc = "done" =>
        /\ \A k \in 1..Len(allData) :
              /\ ~allData[k].isArray
              /\ allData[k].competitor \in RegisteredNames
              /\ Persisted(allData[k].competitor)
        /\ \A c \in RegisteredNames :
              Persisted(c) =>
                 Cardinality({k \in 1..Len(allData) : allData[k].competitor = c}) = 1

\* C22: every successful refresh is persisted: when a request of the write
\* interface (GET for one source, GET for all, POST of a list) has answered,
\* each record it returns for a refreshed source is the one stored for that
\* source, so that a retrieve of the source yields the same updates.
InvC22 ==
    (getPc = "done" /\ resp.success /\ ~resp.fromCache) =>
        \A k \in 1..Len(resp.data) :
            LET storedData == retrieve(files, resp.data[k].competitor) IN
            /\ storedData.exists
            /\ storedData.updates = resp.data[k].updates

\* the scenario: the stored record holds the one update "Launch v2" of
\* 2024-01-01, the probe did not match, and the full crawl has returned
\* "Launch v2" and "New dashboard" (2024-02-01)
ScenarioC23 ==
    /\ scPc = "returned"
    /\ cur \in DOMAIN files
    /\ snap[cur].exists
    /\ snap[cur].readable
    /\ snap[cur].updates = <<Upd(T_Launch, D1)>>
    /\ cur \in probed
    /\ cur \notin probeMatch
    /\ cur \in crawled
    /\ fullData = <<Upd(T_Launch, D1), Upd(T_New, D2)>>

ExpectedC23 == <<Upd(T_New, D2), Upd(T_Launch, D1)>>

\* C23: in the scenario the refresh yields exactly two updates, "New
\* dashboard" first and "Launch v2" second, and the handler's next step hands
\* them on: the single-source branch persists them with success = true and
\* answers with them, the all-sources branch appends them to its results.
ActC23 ==
    [][ScenarioC23 =>
          /\ ret.updates = ExpectedC23
          /\ getPc = "single" =>
                /\ files'[cur] = StoredData(ExpectedC23, TRUE, Now)
                /\ resp'.success
                /\ resp'.data = <<ScrapedData(cur, ExpectedC23, Now)>>
          /\ getPc = "all" =>
                /\ results'[Len(results')] = ScrapedData(cur, ExpectedC23, Now)
                /\ getPc' = "done" => files'[cur] = StoredData(ExpectedC23, TRUE, Now)
      ]_vars

WitC23 ==
    /\ ScenarioC23
    /\ getPc = "single"
    /\ ret.updates = ExpectedC23

\* the probe of the refresh in hand ran against stored history and matched
\* at least one entry
ProbedNonEmpty ==
    /\ scPc \in {"full", "returned", "threw"}
    /\ cur \in probed
    /\ Len(existingUpdates) > 0
    /\ Len(quickUpdates) > 0

\* C24: mismatch forces a full crawl: with stored history and a non-empty
\* probe whose first result differs from the first stored entry in trimmed
\* title or in date, the refresh does not skip: it stands before the full
\* crawl or has run it; and whether it skips depends on nothing but the first
\* probe entry and the first stored entry.
InvC24 ==
    ProbedNonEmpty =>
        /\ ~FirstMatches(existingUpdates, quickUpdates) =>
              /\ cur \notin skipped
              /\ scPc = "full" \/ cur \in crawled
        /\ cur \in skipped <=>
              /\ Trim(existingUpdates[1].title) = Trim(quickUpdates[1].title)
              /\ existingUpdates[1].date = quickUpdates[1].date

\* the first probe entry differs in date only, the second one is the first
\* stored entry, and the full crawl has run
WitC24 ==
    /\ ProbedNonEmpty
    /\ scPc = "returned"
    /\ cur \in crawled
    /\ Len(quickUpdates) = 2
    /\ Trim(quickUpdates[1].title) = Trim(existingUpdates[1].title)
    /\ quickUpdates[1].date # existingUpdates[1].date
    /\ quickUpdates[2].date = existingUpdates[1].date

\* C25: the quick probe is bounded and does not throw: it returns at most
\* the first three matched entries, each with a non-empty title, it neither
\* scrolls nor clicks, and when the page does not match its selectors or
\* cannot be queried it returns the empty sequence instead of raising.
InvC25 ==
    qcPc = "done" =>
        /\ ~qcThrew
        /\ Len(qcOut) <= QuickLimit
        /\ \A k \in 1..Len(qcOut) :
              /\ Len(qcOut[k].title) > 0
              /\ \E j \in 1..Len(qcMatched) :
                    j <= QuickLimit /\ qcMatched[j].title = qcOut[k].title
        /\ (qcMatched = <<>> \/ ~qcEval \/ ~qcIdle) => qcOut = <<>>
        /\ lmPc = "idle" /\ attempts = 0 /\ clickRounds = 0

\* the entry the last client call found was younger than the timeout
FoundValid == clBefore.present /\ (clAt - clBefore.timestamp) < CacheTimeout

\* the entry now under the sorted list of the sources the pages pass
EntryNow == cache[<<"stripe", "vercel">>]

\* C26: client cache protocol: fetchScrapedChangelogs answers from the cache
\* without a network call when the entry of the sorted source list is younger
\* than five minutes; otherwise it fetches, replaces the entry on success,
\* and on failure returns the expired entry if there is one and raises only
\* when there is none.  refreshChangelogs always attempts the fetch and
\* raises when it fails, whatever entry there was before.
InvC26 ==
    clPc = "done" =>
        /\ clOp = "fetch" /\ FoundValid =>
              /\ ~clFetched
              /\ ~clThrew
              /\ clOut = clBefore.data
              /\ EntryNow = clBefore
        /\ (clOp = "refresh" \/ ~FoundValid) =>
              /\ clFetched
              /\ clFetchOK =>
                    /\ ~clThrew
                    /\ clOut = clUpdates
                    /\ EntryNow = Entry(clUpdates, clAt)
        /\ (clOp = "fetch" /\ ~FoundValid /\ ~clFetchOK) =>
              IF clBefore.present
              THEN ~clThrew /\ clOut = clBefore.data /\ EntryNow = clBefore
              ELSE clThrew /\ ~EntryNow.present
        /\ (clOp = "refresh" /\ ~clFetchOK) =>
              /\ clThrew
              /\ ~EntryNow.present

\* a refresh failed while the cache held a fresh entry set under the other
\* order of the same sources
WitC26 ==
    /\ clPc = "done"
    /\ clOp = "refresh"
    /\ clSources = <<"vercel", "stripe">>
    /\ FoundValid
    /\ ~clFetchOK
    /\ clThrew

\* E is what stands at the end of M
IsSuffix(E, M) ==
    /\ Len(E) <= Len(M)
    /\ SubSeq(M, Len(M) - Len(E) + 1, Len(M)) = E

\* C27: history is append-only under sequential refreshes: when a GET request
\* (for one source or for all) has ended, however its refreshes ended, the
\* updates each source had persisted when the request began are a suffix of
\* the updates persisted now: none removed, none reordered.
InvC27 ==
    getPc = "done" =>
        \A c \in RegisteredNames :
            (snap[c].exists /\ snap[c].readable) =>
                /\ files[c].exists
                /\ files[c].readable
                /\ IsSuffix(snap[c].updates, files[c].updates)

\* sources whose page shows the same single entry at every visit
StaticPages == {c \in RegisteredNames :
                   Cardinality(PageEntries(c)) = 1 /\ Cardinality(ProbeEntries(c)) = 1}

\* C28: an unchanged page is skipped: for a source whose page shows the same
\* entry as when the full crawl stored its record, the next refresh runs no
\* full extraction, and the date its probe computes for the first entry is
\* the date the full crawl stored for it.
InvC28 ==
    \A c \in StaticPages :
        (snap[c].exists /\ snap[c].readable /\ Len(snap[c].updates) > 0) =>
            /\ c \notin crawled
            /\ (cur = c /\ c \in probed /\ Len(quickUpdates) > 0) =>
                  quickUpdates[1].date = snap[c].updates[1].date

\* C29: storeFailure keeps the collected updates: the record it writes is
\* marked success = false with a fresh lastScraped and still holds the
\* updates the source had stored, so that the refresh that follows loads the
\* prior history.
InvC29 ==
    /\ (sfPc = "done" /\ requests = sfAt) =>
          /\ files[sfCompetitor].exists
          /\ ~files[sfCompetitor].success
          /\ files[sfCompetitor].lastScraped = Now
          /\ (sfBefore.exists /\ sfBefore.readable) =>
                files[sfCompetitor].updates = sfBefore.updates
    /\ (sfPc = "done" /\ requests = sfAt + 1 /\ cur = sfCompetitor
           /\ scPc \in {"probe", "full"}) =>
          existingUpdates = loadExistingData([c \in {cur} |-> sfBefore], cur)

\* C30: no lost updates under overlapping refreshes: once both of two
\* requests for the same source have stored, every update the request that
\* stored first persisted is still in the source's record.
InvC30 ==
    Len(ovStored) = 2 =>
        \A i \in DOMAIN ovFirst :
            \E j \in DOMAIN files[OverlapSource].updates :
                files[OverlapSource].updates[j] = ovFirst[i]
====
